---- MODULE Spec2Model ----
(***************************************************************************)
(* Model of the perception-action engine of src-tauri/src/engine:          *)
(* RustBot (start/stop, the body thread that captures and publishes        *)
(* frames, the brain thread that reads, recognises, matches and acts),     *)
(* and the text helpers the rule matching uses.                            *)
(*                                                                         *)
(* Strings are sequences of one-character strings.  Time is abstracted:    *)
(* a sleep is a step, an elapsed-time test is a nondeterministic choice.   *)
(* RunSpec follows one run more closely: `clock` holds the brain's timers  *)
(* and the delays around its key events, `tasks` the detached threads of   *)
(* fired actions; elsewhere both stay at [pc |-> "none"].                  *)
(* An f32 is an exact decimal fraction [n |-> numerator, d |-> power of    *)
(* ten]; within the bounds used here (fewer than 7 significant digits)     *)
(* f32 comparisons agree with the exact ones.                              *)
(***************************************************************************)
EXTENDS Integers, Sequences, FiniteSets, TLC

\* ------------------------------------------------------------------ bounds
MaxCalls == 3        \* start/stop calls the controller makes
MaxCaptures == 2     \* successful screen captures (frame identities)
FrameCells == 2      \* cells of a pixel buffer, copied one at a time

\* ------------------------------------------------------- program constants
FrameW == 1920
FrameH == 1080
RoiX == 320
RoiY == 0
RoiW == 1280
RoiH == 1080

SettleMs == 1500     \* thread::sleep after a triggered key press

None == 0            \* Option::None of a JoinHandle
Runs == 1..MaxCalls  \* identities of the thread pairs start can spawn

VARIABLES
    active,          \* RustBot.active : AtomicBool shared with every loop
    handle,          \* RustBot.handle : body thread of run r, or None
    brain_handle,    \* RustBot.brain_handle
    ctl,             \* position of the caller inside start/stop
    ncalls,          \* calls made so far
    nruns,           \* runs spawned so far
    latest_frame,    \* per run: content of the RwLock<Option<(Vec,u32,u32)>>
    rw,              \* per run: state of that RwLock
    body,            \* per run: body (capture) thread
    brain,           \* per run: brain (analysis) thread
    brain_config,    \* per run: the rule list the brain was started with
    ncap,            \* captures made so far (identity of the next frame)
    last_pub,        \* per run: frame of the last successful publish
    published,       \* frames that were published, with their run
    keys_down,       \* keys currently held down by send_key_input
    crop,            \* a call of crop_buffer: its arguments and its result
    prep,            \* a call of preprocess_image: its buffer, before and after
    app_config,      \* the fields of AppConfig, other than `rules`, of the runs
    clock,           \* where time is followed: the brain's timers and delays
    tasks            \* where they are followed: the detached threads of actions

vars == <<active, handle, brain_handle, ctl, ncalls, nruns, latest_frame, rw,
          body, brain, brain_config, ncap, last_pub, published, keys_down,
          crop, prep, app_config, clock, tasks>>

\* ------------------------------------------------------------------ frames
NoFrame == [some |-> FALSE, px |-> [i \in 1..FrameCells |-> 0], w |-> 0, h |-> 0]

Frame(n) == [some |-> TRUE, px |-> [i \in 1..FrameCells |-> n],
             w |-> FrameW, h |-> FrameH]

\* ------------------------------------------------------------------- text
UpperCase == <<"A","B","C","D","E","F","G","H","I","J","K","L","M",
               "N","O","P","Q","R","S","T","U","V","W","X","Y","Z">>
LowerCase == <<"a","b","c","d","e","f","g","h","i","j","k","l","m",
               "n","o","p","q","r","s","t","u","v","w","x","y","z">>
DigitChars == <<"0","1","2","3","4","5","6","7","8","9">>

Range(s) == {s[i] : i \in DOMAIN s}

UpperChars == Range(UpperCase)
AlnumChars == Range(UpperCase) \cup Range(LowerCase) \cup Range(DigitChars)
PriceChars == Range(DigitChars) \cup {",", "."}

to_lowercase_char(c) ==
    IF c \in UpperChars
    THEN LowerCase[CHOOSE i \in 1..26 : UpperCase[i] = c]
    ELSE c

to_lowercase(s) == [i \in 1..Len(s) |-> to_lowercase_char(s[i])]

contains(s, sub) ==
    \E k \in 0..(Len(s) - Len(sub)) : \A j \in 1..Len(sub) : s[k + j] = sub[j]

is_alphanumeric(c) == c \in AlnumChars

\* str::split(|c| !c.is_alphanumeric()): the pieces between separators,
\* empty pieces included
RECURSIVE split_from(_, _, _)
split_from(s, i, cur) ==
    IF i > Len(s) THEN <<cur>>
    ELSE IF ~is_alphanumeric(s[i]) THEN <<cur>> \o split_from(s, i + 1, <<>>)
    ELSE split_from(s, i + 1, Append(cur, s[i]))

split_words(s) == split_from(s, 1, <<>>)

Min2(a, b) == IF a < b THEN a ELSE b
Max2(a, b) == IF a > b THEN a ELSE b

\* strsim::levenshtein, row by row: position i + 1 of a row holds the
\* distance between the first i characters of a and a prefix of b
RECURSIVE lev_row(_, _, _, _)
lev_row(a, c, prev, cur) ==
    LET i == Len(cur)
    IN  IF i > Len(a) THEN cur
        ELSE lev_row(a, c, prev,
                     Append(cur, Min2(Min2(prev[i + 1] + 1, cur[i] + 1),
                                      prev[i] + (IF a[i] = c THEN 0 ELSE 1))))

\* the first position of a row is the number of characters of b consumed
RECURSIVE lev_rows(_, _, _)
lev_rows(a, b, prev) ==
    LET j == prev[1] + 1
    IN  IF j > Len(b) THEN prev[Len(a) + 1]
        ELSE lev_rows(a, b, lev_row(a, b[j], prev, <<j>>))

levenshtein(a, b) == lev_rows(a, b, [i \in 1..(Len(a) + 1) |-> i - 1])

\* strsim::normalized_levenshtein as the fraction <<numerator, denominator>>
normalized_levenshtein(a, b) ==
    IF Len(a) = 0 /\ Len(b) = 0 THEN <<1, 1>>
    ELSE LET m == Max2(Len(a), Len(b))
         IN  <<m - levenshtein(a, b), m>>

\* a threshold of one half
gt_05(q) == q[1] * 100 > 50 * q[2]

\* a threshold of 0.8
gt_080(q) == q[1] * 100 > 80 * q[2]

\* q > 0.85
gt_085(q) == q[1] * 100 > 85 * q[2]

\* ------------------------------------------------------------ f32 values
F(n) == [n |-> n, d |-> 1]
f32_ge(a, b) == a.n * b.d >= b.n * a.d
f32_le(a, b) == a.n * b.d <= b.n * a.d

NoneVal == [some |-> FALSE, v |-> <<>>]
Some(x) == [some |-> TRUE, v |-> x]

is_price_char(c) == c \in PriceChars

\* Regex [\d,\.]+ find_iter: the maximal runs of digits, commas and periods,
\* in text order
RECURSIVE price_runs_from(_, _, _)
price_runs_from(s, i, cur) ==
    IF i > Len(s) THEN (IF cur = <<>> THEN <<>> ELSE <<cur>>)
    ELSE IF is_price_char(s[i]) THEN price_runs_from(s, i + 1, Append(cur, s[i]))
    ELSE (IF cur = <<>> THEN <<>> ELSE <<cur>>) \o price_runs_from(s, i + 1, <<>>)

price_runs(s) == price_runs_from(s, 1, <<>>)

\* String::replace(',', "")
RECURSIVE remove_commas(_)
remove_commas(s) ==
    IF s = <<>> THEN <<>>
    ELSE IF Head(s) = "," THEN remove_commas(Tail(s))
    ELSE <<Head(s)>> \o remove_commas(Tail(s))

digit_value(c) == (CHOOSE i \in 1..10 : DigitChars[i] = c) - 1

RECURSIVE digits_value(_, _)
digits_value(s, acc) ==
    IF s = <<>> THEN acc
    ELSE IF Head(s) = "." THEN digits_value(Tail(s), acc)
    ELSE digits_value(Tail(s), acc * 10 + digit_value(Head(s)))

RECURSIVE pow10(_)
pow10(k) == IF k = 0 THEN 1 ELSE 10 * pow10(k - 1)

\* str::parse::<f32> on a run of digits and periods: Ok when there is at
\* least one digit and at most one period ("5." and ".5" parse, "." does not)
parse_f32(s) ==
    LET dots   == {i \in 1..Len(s) : s[i] = "."}
        ndig   == Len(s) - Cardinality(dots)
        frac   == IF dots = {} THEN 0 ELSE Len(s) - (CHOOSE i \in dots : TRUE)
    IN  IF ndig >= 1 /\ Cardinality(dots) <= 1
        THEN Some([n |-> digits_value(s, 0), d |-> pow10(frac)])
        ELSE NoneVal

\* ------------------------------------------------------------ rule gates
\* the first token taken as the attribute, whatever its position
attribute_item_first(findings) == IF findings = <<>> THEN None ELSE 1

\* findings.iter().min_by(partial_cmp on y): the first token of minimal y
attribute_item(findings) ==
    IF findings = <<>> THEN None
    ELSE CHOOSE i \in 1..Len(findings) :
             /\ \A j \in 1..Len(findings) : findings[i].y <= findings[j].y
             /\ \A j \in 1..(i - 1) : findings[j].y > findings[i].y

attribute_text(findings) ==
    IF attribute_item(findings) = None THEN NoneVal
    ELSE Some(to_lowercase(findings[attribute_item(findings)].text))

\* Z. attribute check: FALSE is the `continue`
attribute_ok(rule, findings) ==
    IF rule.target_attribute.some
    THEN /\ attribute_text(findings).some
         /\ contains(attribute_text(findings).v, to_lowercase(rule.target_attribute.v))
    ELSE TRUE

\* every trigger matched as a substring
trigger_matches_substring(t, text) == contains(text, to_lowercase(t))

\* A. keyword matching
trigger_matches(t, text) ==
    LET keyword == to_lowercase(t)
    IN  IF " " \in Range(keyword)
        THEN contains(text, keyword)
        ELSE LET words == split_words(text)
             IN  \E k \in DOMAIN words :
                     \/ words[k] = keyword
                     \/ gt_085(normalized_levenshtein(words[k], keyword))

keyword_match(rule, item) ==
    \E k \in DOMAIN rule.trigger_text :
        trigger_matches(rule.trigger_text[k], to_lowercase(item.text))

\* bounds that exclude their end points
price_in_bounds_strict(rule, val) ==
    /\ (rule.min_value.some => ~f32_le(val, rule.min_value.v))
    /\ (rule.max_value.some => ~f32_ge(val, rule.max_value.v))

\* B. price check: the first parsed value inside the bounds
price_in_bounds(rule, val) ==
    /\ (rule.min_value.some => f32_ge(val, rule.min_value.v))
    /\ (rule.max_value.some => f32_le(val, rule.max_value.v))

RECURSIVE valid_prices_from(_, _, _)
valid_prices_from(rule, runs, k) ==
    IF k > Len(runs) THEN <<>>
    ELSE LET p == parse_f32(remove_commas(runs[k]))
         IN  (IF p.some /\ price_in_bounds(rule, p.v) THEN <<p>> ELSE <<>>)
             \o valid_prices_from(rule, runs, k + 1)

valid_prices(rule, item) == valid_prices_from(rule, price_runs(item.text), 1)

price_satisfied(rule, item) ==
    IF rule.max_value.some \/ rule.min_value.some
    THEN valid_prices(rule, item) # <<>>
    ELSE TRUE

matched_price(rule, item) ==
    IF (rule.max_value.some \/ rule.min_value.some) /\ valid_prices(rule, item) # <<>>
    THEN valid_prices(rule, item)[1].v
    ELSE F(0)

\* all three gates of one (rule, token) pair
pair_fires(rule, findings, i) ==
    /\ attribute_ok(rule, findings)
    /\ keyword_match(rule, findings[i])
    /\ price_satisfied(rule, findings[i])

\* the loops nested the other way round, tokens outside
next_pair_token_major(ri, ii, nrules, nitems) ==
    IF ri < nrules THEN <<ri + 1, ii>>
    ELSE IF ii < nitems THEN <<1, ii + 1>>
    ELSE <<0, 0>>

\* Order of the nested `for rule in rules { for item in findings.iter() {`:
\* the pair evaluated after <<ri, ii>>, <<0, 0>> when the loops are over
next_pair(ri, ii, nrules, nitems) ==
    IF ii < nitems THEN <<ri, ii + 1>>
    ELSE IF ri < nrules THEN <<ri + 1, 1>>
    ELSE <<0, 0>>

first_pair(nrules, nitems) ==
    IF nrules >= 1 /\ nitems >= 1 THEN <<1, 1>> ELSE <<0, 0>>

\* `let roi = Region::new(320, 0, 1280, 1080);`
roi == [x |-> RoiX, y |-> RoiY, width |-> RoiW, height |-> RoiH]

\* crop_buffer's bounds check (the sums of the engine's region stay far
\* below the u32 range)
crop_fits(src_w, src_h, region) ==
    ~(region.x + region.width > src_w \/ region.y + region.height > src_h)


\* ------------------------------------------------- inputs of the engine
Str_excalibur_sword == <<"E","x","c","a","l","i","b","u","r"," ","S","w","o","r","d">>
Str_fire == <<"F","i","r","e">>
Str_sword_price == <<"S","w","o","r","d"," ","$","1",",","2","5","0">>

Tok(text, y) == [text |-> text, y |-> y]

Rule(id, trig, minv, maxv, attr) ==
    [id |-> id, trigger_text |-> trig, min_value |-> minv, max_value |-> maxv,
     target_attribute |-> attr, cooldown |-> F(0)]

RuleFire == Rule("fire_excalibur", << <<"e","x","c","a","l","i","b","u","r">> >>,
                 NoneVal, NoneVal, Some(<<"f","i","r","e">>))
RuleSword == Rule("any_sword", << <<"S","w","o","r","d">> >>, NoneVal, NoneVal, NoneVal)
RulePrice == Rule("priced_sword", << <<"s","w","o","r","d">> >>,
                  Some(F(1000)), Some(F(1500)), NoneVal)
RuleIce == Rule("ice_sword", << <<"s","w","o","r","d">> >>,
                NoneVal, NoneVal, Some(<<"I","C","E">>))
RuleExcalibur == Rule("excalibur", << <<"e","x","c","a","l","i","b","u","r">> >>,
                      NoneVal, NoneVal, NoneVal)

TokFire == Tok(Str_fire, 2)
TokExcalibur == Tok(Str_excalibur_sword, 10)
TokIce == Tok(<<"I","c","e">>, 2)
TokPrice == Tok(Str_sword_price, 1)

\* what process_frame can return in the engine runs
OcrOutputs ==
    { <<>>, <<TokExcalibur, TokFire>>, <<TokPrice, TokExcalibur>> }

\* AppConfig.rules the engine can be started with
Configs == { NoneVal, Some(<<RuleFire>>), Some(<<RuleSword, RuleFire>>) }

\* parse_key: the virtual key of a key name, VK_E for an unknown name
parse_key(k) ==
    LET arms == {
        <<<<"a">>, "VK_A">>, <<<<"b">>, "VK_B">>, <<<<"c">>, "VK_C">>,
        <<<<"d">>, "VK_D">>, <<<<"e">>, "VK_E">>, <<<<"f">>, "VK_F">>,
        <<<<"g">>, "VK_G">>, <<<<"h">>, "VK_H">>, <<<<"i">>, "VK_I">>,
        <<<<"j">>, "VK_J">>, <<<<"k">>, "VK_K">>, <<<<"l">>, "VK_L">>,
        <<<<"m">>, "VK_M">>, <<<<"n">>, "VK_N">>, <<<<"o">>, "VK_O">>,
        <<<<"p">>, "VK_P">>, <<<<"q">>, "VK_Q">>, <<<<"r">>, "VK_R">>,
        <<<<"s">>, "VK_S">>, <<<<"t">>, "VK_T">>, <<<<"u">>, "VK_U">>,
        <<<<"v">>, "VK_V">>, <<<<"w">>, "VK_W">>, <<<<"x">>, "VK_X">>,
        <<<<"y">>, "VK_Y">>, <<<<"z">>, "VK_Z">>, <<<<"0">>, "VK_0">>,
        <<<<"1">>, "VK_1">>, <<<<"2">>, "VK_2">>, <<<<"3">>, "VK_3">>,
        <<<<"4">>, "VK_4">>, <<<<"5">>, "VK_5">>, <<<<"6">>, "VK_6">>,
        <<<<"7">>, "VK_7">>, <<<<"8">>, "VK_8">>, <<<<"9">>, "VK_9">>,
        <<<<"f","1">>, "VK_F1">>, <<<<"f","2">>, "VK_F2">>, <<<<"f","3">>, "VK_F3">>,
        <<<<"f","4">>, "VK_F4">>, <<<<"f","5">>, "VK_F5">>, <<<<"f","6">>, "VK_F6">>,
        <<<<"f","7">>, "VK_F7">>, <<<<"f","8">>, "VK_F8">>, <<<<"f","9">>, "VK_F9">>,
        <<<<"f","1","0">>, "VK_F10">>, <<<<"f","1","1">>, "VK_F11">>,
        <<<<"f","1","2">>, "VK_F12">>, <<<<"s","p","a","c","e">>, "VK_SPACE">>,
        <<<<"e","n","t","e","r">>, "VK_RETURN">>, <<<<"t","a","b">>, "VK_TAB">>,
        <<<<"e","s","c">>, "VK_ESCAPE">> }
        hits == {a \in arms : a[1] = to_lowercase(k)}
    IN  IF hits = {} THEN "VK_E" ELSE (CHOOSE a \in hits : TRUE)[2]

AfkKeys == {"VK_W", "VK_A", "VK_S", "VK_D"}

\* ------------------------------------------------------------- threads
NoBody   == [pc |-> "none", pixels |-> 0, wi |-> 0, val |-> NoFrame, note |-> "none"]
NewBody  == [NoBody EXCEPT !.pc = "check"]
DoneBody == [NoBody EXCEPT !.pc = "done"]

NoBrain   == [pc |-> "none", ocr |-> FALSE, frame_opt |-> NoFrame, ci |-> 0,
              findings |-> <<>>, ri |-> 0, ii |-> 0, fired |-> <<>>, key |-> "none",
              log |-> {}]
NewBrain  == [NoBrain EXCEPT !.pc = "init"]
DoneBrain == [NoBrain EXCEPT !.pc = "done"]

Alive(t) == t.pc \notin {"none", "done"}

LockFree == [writer |-> FALSE, readers |-> 0]

\* no call of crop_buffer or preprocess_image is being followed

\* AppConfig without `rules`: every optional field the brain thread reads
\* is absent
AppDefaults ==
    [global_action_key |-> NoneVal, hold_duration |-> NoneVal,
     discord_webhook_url |-> NoneVal, gas_url |-> NoneVal]

\* RustBot::new(): stopped, no handles
InitEngine ==
    /\ active = FALSE
    /\ handle = None
    /\ brain_handle = None
    /\ ctl = "idle"
    /\ ncalls = 0
    /\ nruns = 0
    /\ latest_frame = [r \in Runs |-> NoFrame]
    /\ rw = [r \in Runs |-> LockFree]
    /\ body = [r \in Runs |-> NoBody]
    /\ brain = [r \in Runs |-> NoBrain]
    /\ brain_config = [r \in Runs |-> NoneVal]
    /\ ncap = 0
    /\ last_pub = [r \in Runs |-> NoFrame]
    /\ published = {}
    /\ keys_down = {}
    /\ app_config = AppDefaults
    /\ clock = [pc |-> "none"]
    /\ tasks = [pc |-> "none"]

Init == InitEngine /\ crop = [pc |-> "none"] /\ prep = [pc |-> "none"]

\* ---------------------------------------------------- RustBot::start/stop
\* start without the early return
start_guard_off(a) == FALSE

\* `if self.active.load(SeqCst) { return; }`
start_guard(a) == a

\* a start whose slot is a field of the bot that lives across runs: the new
\* threads begin with what the previous run left in it
StartKeepSlot ==
    /\ ctl = "idle"
    /\ ncalls < MaxCalls
    /\ ncalls' = ncalls + 1
    /\ IF start_guard(active)
       THEN UNCHANGED <<active, handle, brain_handle, ctl, nruns, latest_frame, rw,
                        body, brain, brain_config, ncap, last_pub, published,
                        keys_down, crop, prep, app_config, clock, tasks>>
       ELSE \E cfg \in Configs :
              LET r == nruns + 1 IN
              /\ active' = TRUE
              /\ nruns' = r
              /\ latest_frame' = [latest_frame EXCEPT ![r] =
                                     IF r > 1 THEN latest_frame[r - 1] ELSE NoFrame]
              /\ rw' = [rw EXCEPT ![r] = LockFree]
              /\ brain' = [brain EXCEPT ![r] = NewBrain]
              /\ body' = [body EXCEPT ![r] = NewBody]
              /\ brain_config' = [brain_config EXCEPT ![r] = cfg]
              /\ brain_handle' = r
              /\ handle' = r
              /\ UNCHANGED <<ctl, ncap, last_pub, published, keys_down, crop, prep,
                             app_config, clock, tasks>>

Start ==
    /\ ctl = "idle"
    /\ ncalls < MaxCalls
    /\ ncalls' = ncalls + 1
    /\ IF start_guard(active)
       THEN UNCHANGED <<active, handle, brain_handle, ctl, nruns, latest_frame, rw,
                        body, brain, brain_config, ncap, last_pub, published,
                        keys_down, crop, prep,
                   app_config, clock, tasks>>
       ELSE \E cfg \in Configs :
              LET r == nruns + 1 IN
              /\ active' = TRUE
              /\ nruns' = r
              /\ latest_frame' = [latest_frame EXCEPT ![r] = NoFrame]
              /\ rw' = [rw EXCEPT ![r] = LockFree]
              /\ brain' = [brain EXCEPT ![r] = NewBrain]
              /\ body' = [body EXCEPT ![r] = NewBody]
              /\ brain_config' = [brain_config EXCEPT ![r] = cfg]
              /\ brain_handle' = r
              /\ handle' = r
              /\ UNCHANGED <<ctl, ncap, last_pub, published, keys_down, crop, prep,
                   app_config, clock, tasks>>

\* `self.active.store(false, SeqCst)`
StopBegin ==
    /\ ctl = "idle"
    /\ ncalls < MaxCalls
    /\ ncalls' = ncalls + 1
    /\ active' = FALSE
    /\ ctl' = "join_body"
    /\ UNCHANGED <<handle, brain_handle, nruns, latest_frame, rw, body, brain,
                   brain_config, ncap, last_pub, published, keys_down, crop, prep,
                   app_config, clock, tasks>>

\* stop that drops the handle without joining
join_no_wait(h, threads) == TRUE

\* stop that unwraps the handle and so never returns without one
join_unwrap(h, threads) == h # None /\ threads[h].pc = "done"

\* `if let Some(h) = self.handle.take() { let _ = h.join(); }`: returns at
\* once without a handle, otherwise when the thread has terminated
join_done(h, threads) == IF h = None THEN TRUE ELSE threads[h].pc = "done"

\* a stop that joins through a borrowed handle and leaves it in place
take_keep(h) == h

\* Option::take leaves None behind
take(h) == None

StopJoinBody ==
    /\ ctl = "join_body"
    /\ join_done(handle, body)
    /\ handle' = take(handle)
    /\ ctl' = "join_brain"
    /\ UNCHANGED <<active, brain_handle, ncalls, nruns, latest_frame, rw, body,
                   brain, brain_config, ncap, last_pub, published, keys_down, crop, prep,
                   app_config, clock, tasks>>

StopJoinBrain ==
    /\ ctl = "join_brain"
    /\ join_done(brain_handle, brain)
    /\ brain_handle' = take(brain_handle)
    /\ ctl' = "idle"
    /\ UNCHANGED <<active, handle, ncalls, nruns, latest_frame, rw, body,
                   brain, brain_config, ncap, last_pub, published, keys_down, crop, prep,
                   app_config, clock, tasks>>

\* ------------------------------------------------------------ body thread
\* `while active_flag.load(SeqCst)`
BodyCheck(r) ==
    /\ body[r].pc = "check"
    /\ body' = [body EXCEPT ![r] = IF active THEN [@ EXCEPT !.pc = "capture"]
                                   ELSE DoneBody]
    /\ UNCHANGED <<active, handle, brain_handle, ctl, ncalls, nruns, latest_frame,
                   rw, brain, brain_config, ncap, last_pub, published, keys_down, crop, prep,
                   app_config, clock, tasks>>

\* capture_region returns Ok(pixels): a frame never seen before
BodyCaptureOk(r) ==
    /\ body[r].pc = "capture"
    /\ ncap < MaxCaptures
    /\ ncap' = ncap + 1
    /\ body' = [body EXCEPT ![r] = [@ EXCEPT !.pc = "try_write", !.pixels = ncap + 1]]
    /\ UNCHANGED <<active, handle, brain_handle, ctl, ncalls, nruns, latest_frame,
                   rw, brain, brain_config, last_pub, published, keys_down, crop, prep,
                   app_config, clock, tasks>>

\* capture_region returns Err: logged, the slot is left alone
BodyCaptureErr(r) ==
    /\ body[r].pc = "capture"
    /\ body' = [body EXCEPT ![r] = [@ EXCEPT !.pc = "throttle", !.note = "capture_error"]]
    /\ UNCHANGED <<active, handle, brain_handle, ctl, ncalls, nruns, latest_frame,
                   rw, brain, brain_config, ncap, last_pub, published, keys_down, crop, prep,
                   app_config, clock, tasks>>

\* a publish through the blocking write()
try_write_blocking(lk) == IF ~lk.writer /\ lk.readers = 0 THEN "acquired" ELSE "blocked"

\* a publish that does not look at the readers
try_write_unchecked(lk) == IF ~lk.writer THEN "acquired" ELSE "failed"

\* parking_lot RwLock::try_write: the guard when nobody holds the lock,
\* None at once otherwise
try_write(lk) == IF ~lk.writer /\ lk.readers = 0 THEN "acquired" ELSE "failed"

\* a slot that keeps its first frame
slot_assign_keep(cur, frame) == IF cur.some THEN cur ELSE frame

\* `*lock = Some((pixels.clone(), w, h))`: the value the slot receives
slot_assign(cur, frame) == frame

BodyTryWrite(r) ==
    /\ body[r].pc = "try_write"
    /\ try_write(rw[r]) # "blocked"
    /\ IF try_write(rw[r]) = "acquired"
       THEN /\ rw' = [rw EXCEPT ![r].writer = TRUE]
            /\ body' = [body EXCEPT ![r] =
                   [@ EXCEPT !.pc = "write", !.wi = 1,
                             !.val = slot_assign(latest_frame[r], Frame(body[r].pixels))]]
            /\ last_pub' = [last_pub EXCEPT ![r] = Frame(body[r].pixels)]
            /\ published' = published \cup {[run |-> r, frame |-> Frame(body[r].pixels)]}
       ELSE /\ body' = [body EXCEPT ![r] = [@ EXCEPT !.pc = "throttle", !.pixels = 0, !.note = "dropped"]]
            /\ UNCHANGED <<rw, last_pub, published>>
    /\ UNCHANGED <<active, handle, brain_handle, ctl, ncalls, nruns, latest_frame,
                   brain, brain_config, ncap, keys_down, crop, prep,
                   app_config, clock, tasks>>

\* the assignment stores the buffer one cell at a time ...
BodyWrite(r) ==
    /\ body[r].pc = "write"
    /\ body[r].wi <= FrameCells
    /\ latest_frame' = [latest_frame EXCEPT ![r].px[body[r].wi] = body[r].val.px[body[r].wi]]
    /\ body' = [body EXCEPT ![r].wi = @ + 1]
    /\ UNCHANGED <<active, handle, brain_handle, ctl, ncalls, nruns, rw, brain,
                   brain_config, ncap, last_pub, published, keys_down, crop, prep,
                   app_config, clock, tasks>>

\* a publish whose write guard is never dropped
BodyWriteDoneKeepLock(r) ==
    /\ body[r].pc = "write"
    /\ body[r].wi = FrameCells + 1
    /\ latest_frame' = [latest_frame EXCEPT ![r] =
           [@ EXCEPT !.some = body[r].val.some, !.w = body[r].val.w, !.h = body[r].val.h]]
    /\ body' = [body EXCEPT ![r] = [NoBody EXCEPT !.pc = "throttle"]]
    /\ UNCHANGED <<active, handle, brain_handle, ctl, ncalls, nruns, brain, rw,
                   brain_config, ncap, last_pub, published, keys_down, crop, prep,
                   app_config, clock, tasks>>

\* ... then the dimensions and the Some tag, and the guard is dropped
BodyWriteDone(r) ==
    /\ body[r].pc = "write"
    /\ body[r].wi = FrameCells + 1
    /\ latest_frame' = [latest_frame EXCEPT ![r] =
           [@ EXCEPT !.some = body[r].val.some, !.w = body[r].val.w, !.h = body[r].val.h]]
    /\ rw' = [rw EXCEPT ![r].writer = FALSE]
    /\ body' = [body EXCEPT ![r] = [NoBody EXCEPT !.pc = "throttle"]]
    /\ UNCHANGED <<active, handle, brain_handle, ctl, ncalls, nruns, brain,
                   brain_config, ncap, last_pub, published, keys_down, crop, prep,
                   app_config, clock, tasks>>

\* stats, `thread::sleep(target_frame_time - elapsed)`, next iteration
BodyThrottle(r) ==
    /\ body[r].pc = "throttle"
    /\ body' = [body EXCEPT ![r] = [@ EXCEPT !.pc = "check", !.note = "none"]]
    /\ UNCHANGED <<active, handle, brain_handle, ctl, ncalls, nruns, latest_frame,
                   rw, brain, brain_config, ncap, last_pub, published, keys_down, crop, prep,
                   app_config, clock, tasks>>


\* ----------------------------------------------------------- brain thread
BrainUnch == <<active, handle, brain_handle, ctl, ncalls, nruns, latest_frame,
               rw, body, brain_config, ncap, last_pub, published, keys_down,
               crop, prep,
                   app_config, clock, tasks>>

\* OcrEngine::new(): Some(engine) or, after an error, None
BrainInitOcr(r) ==
    /\ brain[r].pc = "init"
    /\ \E ok \in BOOLEAN : brain' = [brain EXCEPT ![r] = [@ EXCEPT !.pc = "check", !.ocr = ok]]
    /\ UNCHANGED BrainUnch

\* a brain loop that does not test the running flag
BrainCheckForever(r) ==
    /\ brain[r].pc = "check"
    /\ brain' = [brain EXCEPT ![r] = [@ EXCEPT !.pc = "afk"]]
    /\ UNCHANGED BrainUnch

\* `while active_flag_brain.load(SeqCst)`
BrainCheck(r) ==
    /\ brain[r].pc = "check"
    /\ brain' = [brain EXCEPT ![r] = IF active THEN [@ EXCEPT !.pc = "afk"]
                                     ELSE DoneBrain]
    /\ UNCHANGED BrainUnch

\* `last_afk.elapsed() >= next_afk_delay` is false
BrainAfkSkip(r) ==
    /\ brain[r].pc = "afk"
    /\ clock.pc = "run" => ~clock.afk_due
    /\ brain' = [brain EXCEPT ![r] = [@ EXCEPT !.pc = "read"]]
    /\ UNCHANGED BrainUnch

\* the interval has elapsed: press_key(k), key down ...
BrainAfkPress(r) ==
    /\ brain[r].pc = "afk"
    /\ clock.pc = "run" => clock.afk_due
    /\ \E k \in AfkKeys :
          /\ keys_down' = keys_down \cup {k}
          /\ brain' = [brain EXCEPT ![r] = [@ EXCEPT !.pc = "afk_hold", !.key = k,
                                                     !.log = @ \cup {"Anti-AFK"}]]
    /\ \E pre \in {20, 50}, hold \in {50, 120} :      \* random_sleep(20, 50), (50, 120)
          clock' = IF clock.pc = "run"
                   THEN [clock EXCEPT !.pre = pre, !.hold = hold]
                   ELSE clock
    /\ UNCHANGED <<active, handle, brain_handle, ctl, ncalls, nruns, latest_frame,
                   rw, body, brain_config, ncap, last_pub, published, crop, prep,
                   app_config, tasks>>

\* ... key up; `last_afk = Instant::now()` and a new interval of 60 to 180
\* seconds is drawn
BrainAfkRelease(r) ==
    /\ brain[r].pc = "afk_hold"
    /\ keys_down' = keys_down \ {brain[r].key}
    /\ brain' = [brain EXCEPT ![r] = [@ EXCEPT !.pc = "read", !.key = "none"]]
    /\ clock' = IF clock.pc = "run"
                THEN [clock EXCEPT !.afk_due = FALSE, !.pre = 0, !.hold = 0]
                ELSE clock
    /\ UNCHANGED <<active, handle, brain_handle, ctl, ncalls, nruns, latest_frame,
                   rw, body, brain_config, ncap, last_pub, published, crop, prep,
                   app_config, tasks>>

\* parking_lot RwLock::read: waits while a writer holds the lock
read_ready(lk) == ~lk.writer

\* `let lock = brain_frame.read();`
BrainReadLock(r) ==
    /\ brain[r].pc = "read"
    /\ read_ready(rw[r])
    /\ rw' = [rw EXCEPT ![r].readers = @ + 1]
    /\ brain' = [brain EXCEPT ![r] = [@ EXCEPT !.pc = "clone", !.ci = 1]]
    /\ UNCHANGED <<active, handle, brain_handle, ctl, ncalls, nruns, latest_frame,
                   body, brain_config, ncap, last_pub, published, keys_down, crop, prep,
                   app_config, clock, tasks>>

\* `lock.clone()` copies the buffer one cell at a time ...
BrainClone(r) ==
    /\ brain[r].pc = "clone"
    /\ brain[r].ci <= FrameCells
    /\ brain' = [brain EXCEPT ![r] =
           [@ EXCEPT !.frame_opt.px[brain[r].ci] = latest_frame[r].px[brain[r].ci],
                     !.ci = @ + 1]]
    /\ UNCHANGED BrainUnch

\* a read that takes the frame out of the slot instead of cloning it
BrainCloneDoneTake(r) ==
    /\ brain[r].pc = "clone"
    /\ brain[r].ci = FrameCells + 1
    /\ brain' = [brain EXCEPT ![r] =
           [@ EXCEPT !.frame_opt.some = latest_frame[r].some,
                     !.frame_opt.w = latest_frame[r].w,
                     !.frame_opt.h = latest_frame[r].h,
                     !.ci = 0, !.pc = "pass"]]
    /\ rw' = [rw EXCEPT ![r].readers = @ - 1]
    /\ latest_frame' = [latest_frame EXCEPT ![r] = NoFrame]
    /\ UNCHANGED <<active, handle, brain_handle, ctl, ncalls, nruns,
                   body, brain_config, ncap, last_pub, published, keys_down, crop, prep,
                   app_config, clock, tasks>>

\* a read whose guard lives until the end of the pass
BrainCloneDoneKeepGuard(r) ==
    /\ brain[r].pc = "clone"
    /\ brain[r].ci = FrameCells + 1
    /\ brain' = [brain EXCEPT ![r] =
           [@ EXCEPT !.frame_opt.some = latest_frame[r].some,
                     !.frame_opt.w = latest_frame[r].w,
                     !.frame_opt.h = latest_frame[r].h,
                     !.ci = 0, !.pc = "pass"]]
    /\ UNCHANGED <<active, handle, brain_handle, ctl, ncalls, nruns, latest_frame,
                   rw, body, brain_config, ncap, last_pub, published, keys_down, crop, prep,
                   app_config, clock, tasks>>

\* ... then the dimensions and the tag, and the guard is dropped
BrainCloneDone(r) ==
    /\ brain[r].pc = "clone"
    /\ brain[r].ci = FrameCells + 1
    /\ brain' = [brain EXCEPT ![r] =
           [@ EXCEPT !.frame_opt.some = latest_frame[r].some,
                     !.frame_opt.w = latest_frame[r].w,
                     !.frame_opt.h = latest_frame[r].h,
                     !.ci = 0, !.pc = "pass"]]
    /\ rw' = [rw EXCEPT ![r].readers = @ - 1]
    /\ UNCHANGED <<active, handle, brain_handle, ctl, ncalls, nruns, latest_frame,
                   body, brain_config, ncap, last_pub, published, keys_down, crop, prep,
                   app_config, clock, tasks>>

\* a pass that goes on to recognition without looking at the OCR engine
BrainPassNoEngine(r) ==
    /\ brain[r].pc = "pass"
    /\ brain' = [brain EXCEPT ![r] =
           IF /\ brain[r].frame_opt.some
              /\ crop_fits(brain[r].frame_opt.w, brain[r].frame_opt.h, roi)
           THEN [@ EXCEPT !.pc = "ocr"]
           ELSE [@ EXCEPT !.pc = "sleep"]]
    /\ UNCHANGED BrainUnch

\* `if let Some(..) = frame_opt`, `if let Some(ref engine) = ocr`,
\* `if let Some(..) = crop_buffer(..)`, preprocess_image
BrainPass(r) ==
    /\ brain[r].pc = "pass"
    /\ brain' = [brain EXCEPT ![r] =
           IF /\ brain[r].frame_opt.some
              /\ brain[r].ocr
              /\ crop_fits(brain[r].frame_opt.w, brain[r].frame_opt.h, roi)
           THEN [@ EXCEPT !.pc = "ocr"]
           ELSE [@ EXCEPT !.pc = "sleep"]]
    /\ UNCHANGED BrainUnch

rules_of(cfg) == IF cfg.some THEN cfg.v ELSE <<>>

\* the state of the brain after the pair <<ri, ii>>
goto_pair(b, p) ==
    IF p = <<0, 0>> THEN [b EXCEPT !.pc = "sleep", !.ri = 0, !.ii = 0]
    ELSE [b EXCEPT !.pc = "match", !.ri = p[1], !.ii = p[2]]

\* process_frame returns Ok(findings); the rule and token loops begin
BrainOcrOk(r) ==
    /\ brain[r].pc = "ocr"
    /\ \E f \in OcrOutputs :
          brain' = [brain EXCEPT ![r] =
              goto_pair([@ EXCEPT !.findings = f],
                        first_pair(Len(rules_of(brain_config[r])), Len(f)))]
    /\ UNCHANGED BrainUnch

\* process_frame returns Err and the loop is left
BrainOcrErrBreak(r) ==
    /\ brain[r].pc = "ocr"
    /\ brain' = [brain EXCEPT ![r] = DoneBrain]
    /\ UNCHANGED BrainUnch

\* process_frame returns Err: logged
BrainOcrErr(r) ==
    /\ brain[r].pc = "ocr"
    /\ brain' = [brain EXCEPT ![r] = [@ EXCEPT !.pc = "sleep",
                                               !.log = @ \cup {"OCR Error"}]]
    /\ UNCHANGED BrainUnch

\* gates that also skip a rule with a cooldown that has fired in this pass
BrainMatchCooldown(r) ==
    /\ brain[r].pc = "match"
    /\ LET rules == rules_of(brain_config[r])
           b     == brain[r]
           cold  == /\ rules[b.ri].cooldown.n > 0
                    /\ \E k \in DOMAIN b.fired : b.fired[k].id = rules[b.ri].id
       IN  brain' = [brain EXCEPT ![r] =
               IF ~cold /\ pair_fires(rules[b.ri], b.findings, b.ii)
               THEN [b EXCEPT !.pc = "fire"]
               ELSE goto_pair(b, next_pair(b.ri, b.ii, Len(rules), Len(b.findings)))]
    /\ UNCHANGED BrainUnch

\* the gates of the pair (rule ri, token ii): a `continue` goes on to the
\* next pair
BrainMatch(r) ==
    /\ brain[r].pc = "match"
    /\ LET rules == rules_of(brain_config[r])
           b     == brain[r]
       IN  brain' = [brain EXCEPT ![r] =
               IF pair_fires(rules[b.ri], b.findings, b.ii)
               THEN [b EXCEPT !.pc = "fire"]
               ELSE goto_pair(b, next_pair(b.ri, b.ii, Len(rules), Len(b.findings)))]
    /\ UNCHANGED BrainUnch

\* a payload built from the lower-cased `text` of the token loop
fire_event_lower(rule, findings, ri, ii) ==
    [ri |-> ri, ii |-> ii, id |-> rule.id,
     name |-> to_lowercase(findings[ii].text),
     attribute |-> IF attribute_item(findings) = None THEN <<>>
                   ELSE to_lowercase(findings[attribute_item(findings)].text),
     price |-> matched_price(rule, findings[ii])]

\* C. trigger action: the MATCHED log, the evidence/upload thread and the
\* webhook thread are started with the payload of this pair
fire_event(rule, findings, ri, ii) ==
    [ri |-> ri, ii |-> ii, id |-> rule.id,
     name |-> findings[ii].text,
     attribute |-> IF attribute_item(findings) = None THEN <<>>
                   ELSE findings[attribute_item(findings)].text,
     price |-> matched_price(rule, findings[ii])]

\* the threads the trigger action spawns and drops the handles of: the
\* evidence thread always, the webhook thread for a non-empty URL
spawned(cfg) ==
    {[kind |-> "evidence", stage |-> "save"]}
    \cup IF cfg.discord_webhook_url.some /\ cfg.discord_webhook_url.v # <<>>
         THEN {[kind |-> "webhook", stage |-> "post"]}
         ELSE {}

BrainFire(r) ==
    /\ brain[r].pc = "fire"
    /\ LET rules == rules_of(brain_config[r])
           b     == brain[r]
       IN  brain' = [brain EXCEPT ![r] =
               [b EXCEPT !.pc = "press",
                         !.log = @ \cup {"MATCHED"},
                         !.fired = Append(@, fire_event(rules[b.ri], b.findings, b.ri, b.ii))]]
    /\ tasks' = IF tasks.pc = "run"
                THEN [tasks EXCEPT !.live = @ \cup spawned(app_config)]
                ELSE tasks
    /\ UNCHANGED <<active, handle, brain_handle, ctl, ncalls, nruns, latest_frame,
                   rw, body, brain_config, ncap, last_pub, published, keys_down,
                   crop, prep, app_config, clock>>

\* the duration in seconds taken for milliseconds
duration_ms_unscaled(cfg) ==
    LET duration == IF cfg.hold_duration.some THEN cfg.hold_duration.v
                    ELSE [n |-> 12, d |-> 10]
    IN  IF duration.n < 0 THEN 0 ELSE duration.n \div duration.d

\* `(duration * 1000.0) as u64` of hold_duration.unwrap_or(1.2): the cast
\* drops the fraction and turns a negative value into 0
duration_ms(cfg) ==
    LET duration == IF cfg.hold_duration.some THEN cfg.hold_duration.v
                    ELSE [n |-> 12, d |-> 10]
    IN  IF duration.n < 0 THEN 0 ELSE (duration.n * 1000) \div duration.d

\* global_action_key.as_deref().unwrap_or("e")
key_str(cfg) ==
    IF cfg.global_action_key.some THEN cfg.global_action_key.v ELSE <<"e">>

\* a key press that first waits until the detached threads have ended
BrainPressJoined(r) ==
    /\ brain[r].pc = "press"
    /\ tasks.pc = "run" => tasks.live = {}
    /\ keys_down' = keys_down \cup {parse_key(key_str(app_config))}
    /\ brain' = [brain EXCEPT ![r] = [@ EXCEPT !.pc = "release",
                                               !.key = parse_key(key_str(app_config)),
                                               !.log = @ \cup {"PRESS"}]]
    /\ \E pre \in {20, 50}, jitter \in {0, 100} :
          clock' = IF clock.pc = "run"
                   THEN [clock EXCEPT !.pre = pre,
                                      !.hold = duration_ms(app_config) + jitter]
                   ELSE clock
    /\ UNCHANGED <<active, handle, brain_handle, ctl, ncalls, nruns, latest_frame,
                   rw, body, brain_config, ncap, last_pub, published, crop, prep,
                   app_config, tasks>>

\* long_press_key(vk, duration_ms): random_sleep(20, 50), key down, and the
\* sleep of duration_ms + jitter begins, jitter in 0..=100
BrainPress(r) ==
    /\ brain[r].pc = "press"
    /\ keys_down' = keys_down \cup {parse_key(key_str(app_config))}
    /\ brain' = [brain EXCEPT ![r] = [@ EXCEPT !.pc = "release",
                                               !.key = parse_key(key_str(app_config)),
                                               !.log = @ \cup {"PRESS"}]]
    /\ \E pre \in {20, 50}, jitter \in {0, 100} :
          clock' = IF clock.pc = "run"
                   THEN [clock EXCEPT !.pre = pre,
                                      !.hold = duration_ms(app_config) + jitter]
                   ELSE clock
    /\ UNCHANGED <<active, handle, brain_handle, ctl, ncalls, nruns, latest_frame,
                   rw, body, brain_config, ncap, last_pub, published, crop, prep,
                   app_config, tasks>>

\* a key up after which the loops go on at once with the next pair
BrainReleaseNoSettle(r) ==
    /\ brain[r].pc = "release"
    /\ keys_down' = keys_down \ {brain[r].key}
    /\ LET b == [brain[r] EXCEPT !.key = "none", !.log = @ \cup {"RELEASED"}]
       IN  brain' = [brain EXCEPT ![r] =
               goto_pair(b, next_pair(b.ri, b.ii, Len(rules_of(brain_config[r])),
                                      Len(b.findings)))]
    /\ clock' = IF clock.pc = "run"
                THEN [clock EXCEPT !.pre = 0, !.hold = 0, !.since_up = 0]
                ELSE clock
    /\ UNCHANGED <<active, handle, brain_handle, ctl, ncalls, nruns, latest_frame,
                   rw, body, brain_config, ncap, last_pub, published, crop, prep,
                   app_config, tasks>>

\* ... the sleep is over, key up
BrainRelease(r) ==
    /\ brain[r].pc = "release"
    /\ keys_down' = keys_down \ {brain[r].key}
    /\ brain' = [brain EXCEPT ![r] = [@ EXCEPT !.pc = "settle", !.key = "none",
                                               !.log = @ \cup {"RELEASED"}]]
    /\ clock' = IF clock.pc = "run"
                THEN [clock EXCEPT !.pre = 0, !.hold = 0, !.since_up = 0]
                ELSE clock
    /\ UNCHANGED <<active, handle, brain_handle, ctl, ncalls, nruns, latest_frame,
                   rw, body, brain_config, ncap, last_pub, published, crop, prep,
                   app_config, tasks>>

\* a settle delay that also restarts the anti-AFK interval
BrainSettleResetAfk(r) ==
    /\ brain[r].pc = "settle"
    /\ LET b == brain[r]
       IN  brain' = [brain EXCEPT ![r] =
               goto_pair(b, next_pair(b.ri, b.ii, Len(rules_of(brain_config[r])),
                                      Len(b.findings)))]
    /\ clock' = IF clock.pc = "run"
                THEN [clock EXCEPT !.since_up = SettleMs, !.afk_due = FALSE]
                ELSE clock
    /\ UNCHANGED <<active, handle, brain_handle, ctl, ncalls, nruns, latest_frame,
                   rw, body, brain_config, ncap, last_pub, published, keys_down,
                   crop, prep, app_config, tasks>>

\* `thread::sleep(Duration::from_millis(1500))`, then the end of the body of
\* the token loop: the loops go on with the next pair
BrainSettle(r) ==
    /\ brain[r].pc = "settle"
    /\ LET b == brain[r]
       IN  brain' = [brain EXCEPT ![r] =
               goto_pair(b, next_pair(b.ri, b.ii, Len(rules_of(brain_config[r])),
                                      Len(b.findings)))]
    /\ clock' = IF clock.pc = "run"
                THEN [clock EXCEPT !.since_up = SettleMs]
                ELSE clock
    /\ UNCHANGED <<active, handle, brain_handle, ctl, ncalls, nruns, latest_frame,
                   rw, body, brain_config, ncap, last_pub, published, keys_down,
                   crop, prep, app_config, tasks>>

\* `thread::sleep(Duration::from_millis(50))`: the pass is over, its locals
\* are dropped
BrainSleep(r) ==
    /\ brain[r].pc = "sleep"
    /\ brain' = [brain EXCEPT ![r] = [NoBrain EXCEPT !.pc = "check", !.ocr = brain[r].ocr]]
    /\ UNCHANGED BrainUnch

\* ------------------------------------------------------- specifications
\* a step of the body thread of run r
BodyStep(r) ==
    \/ BodyCheck(r) \/ BodyCaptureOk(r) \/ BodyCaptureErr(r) \/ BodyTryWrite(r)
    \/ BodyWrite(r) \/ BodyWriteDone(r) \/ BodyThrottle(r)

\* a step of the brain thread of run r other than the evaluation of a
\* (rule, token) pair, which is BrainMatch
BrainStep(r) ==
    \/ BrainInitOcr(r) \/ BrainCheck(r) \/ BrainAfkSkip(r) \/ BrainAfkPress(r)
    \/ BrainAfkRelease(r) \/ BrainReadLock(r) \/ BrainClone(r) \/ BrainCloneDone(r)
    \/ BrainPass(r) \/ BrainOcrOk(r) \/ BrainOcrErr(r)
    \/ BrainFire(r) \/ BrainPress(r) \/ BrainRelease(r) \/ BrainSettle(r)
    \/ BrainSleep(r)

Next ==
    \/ Start
    \/ StopBegin
    \/ StopJoinBody
    \/ StopJoinBrain
    \/ \E r \in Runs : BodyCheck(r)
    \/ \E r \in Runs : BodyCaptureOk(r)
    \/ \E r \in Runs : BodyCaptureErr(r)
    \/ \E r \in Runs : BodyTryWrite(r)
    \/ \E r \in Runs : BodyWrite(r)
    \/ \E r \in Runs : BodyWriteDone(r)
    \/ \E r \in Runs : BodyThrottle(r)
    \/ \E r \in Runs : BrainInitOcr(r)
    \/ \E r \in Runs : BrainCheck(r)
    \/ \E r \in Runs : BrainAfkSkip(r)
    \/ \E r \in Runs : BrainAfkPress(r)
    \/ \E r \in Runs : BrainAfkRelease(r)
    \/ \E r \in Runs : BrainReadLock(r)
    \/ \E r \in Runs : BrainClone(r)
    \/ \E r \in Runs : BrainCloneDone(r)
    \/ \E r \in Runs : BrainPass(r)
    \/ \E r \in Runs : BrainOcrOk(r)
    \/ \E r \in Runs : BrainOcrErr(r)
    \/ \E r \in Runs : BrainMatch(r)
    \/ \E r \in Runs : BrainFire(r)
    \/ \E r \in Runs : BrainPress(r)
    \/ \E r \in Runs : BrainRelease(r)
    \/ \E r \in Runs : BrainSettle(r)
    \/ \E r \in Runs : BrainSleep(r)

Spec == Init /\ [][Next]_vars


\* ------------------------------------------------- the analysis pass alone
MaxTokens == 2       \* tokens process_frame returns in one pass
MaxRules == 2        \* rules of a configuration

MatchTokens == {TokFire, TokExcalibur, TokIce, TokPrice}
MatchRules == {RuleFire, RulePrice, RuleIce, RuleExcalibur}

SeqsUpTo(S, n) == UNION {[1..k -> S] : k \in 0..n}

\* The engine is running its first run and process_frame has just returned
\* the findings of one pass.
InitMatch ==
    /\ active = TRUE
    /\ handle = 1
    /\ brain_handle = 1
    /\ ctl = "idle"
    /\ ncalls = 1
    /\ nruns = 1
    /\ latest_frame = [r \in Runs |-> IF r = 1 THEN Frame(1) ELSE NoFrame]
    /\ rw = [r \in Runs |-> LockFree]
    /\ body = [r \in Runs |-> IF r = 1 THEN NewBody ELSE NoBody]
    /\ \E f \in SeqsUpTo(MatchTokens, MaxTokens), rules \in SeqsUpTo(MatchRules, MaxRules) :
          /\ brain_config = [r \in Runs |-> IF r = 1 THEN Some(rules) ELSE NoneVal]
          /\ brain = [r \in Runs |->
                 IF r = 1
                 THEN goto_pair([NoBrain EXCEPT !.ocr = TRUE, !.frame_opt = Frame(1),
                                                !.findings = f],
                                first_pair(Len(rules), Len(f)))
                 ELSE NoBrain]
    /\ ncap = 1
    /\ last_pub = [r \in Runs |-> IF r = 1 THEN Frame(1) ELSE NoFrame]
    /\ published = {[run |-> 1, frame |-> Frame(1)]}
    /\ keys_down = {}
    /\ crop = [pc |-> "none"]
    /\ prep = [pc |-> "none"]
    /\ app_config = AppDefaults
    /\ clock = [pc |-> "none"]
    /\ tasks = [pc |-> "none"]

NextMatch ==
    \/ \E r \in Runs : BrainMatch(r)
    \/ \E r \in Runs : BrainFire(r)
    \/ \E r \in Runs : BrainPress(r)
    \/ \E r \in Runs : BrainRelease(r)
    \/ \E r \in Runs : BrainSettle(r)

MatchSpec == InitMatch /\ [][NextMatch]_vars

\* -------------------------------------------- one rule against one token
MaxWordLen == 7      \* letters of a generated trigger word

\* OcrData.text of the token
Texts ==
    [ sowrd |-> <<"s","o","w","r","d">>,
      axe |-> <<"a","x","e">>,
      sword |-> <<"S","w","o","r","d">>,
      swordfish |-> <<"S","w","o","r","d","f","i","s","h">>,
      price_only |-> <<"$","1",",","2","5","0">>,
      excalibar |-> <<"E","x","c","a","l","i","b","a","r">>,
      three_prices |-> <<"S","w","o","r","d"," ","9","9"," ","1",",","2","5","0"," ","1",",","3","0","0">>,
      two_periods |-> <<"S","w","o","r","d"," ","1",".","2",".","3">>,
      sword_1000 |-> <<"S","w","o","r","d"," ","1","0","0","0">>,
      sword_1501 |-> <<"S","w","o","r","d"," ","1","5","0","1">>,
      sword_fraction |-> <<"S","w","o","r","d"," ","1","2","5","0",".","5">>,
      dashes |-> <<"-","-","s","w","o","r","d","-">> ]

\* keywords of Rule.trigger_text
Kw ==
    [ sword |-> <<"s","w","o","r","d">>,
      excalibur |-> <<"e","x","c","a","l","i","b","u","r">>,
      phrase |-> <<"E","x","c","a","l","i","b","u","r"," ","S","w","o","r","d">>,
      axe |-> <<"a","x","e">>,
      sword_upper |-> <<"S","W","O","R","D">> ]

\* rules whose trigger_text is a single word, a phrase, two keywords or
\* empty, with each combination of min_value and max_value
GateRules ==
    { Rule("gate", t, b[1], b[2], NoneVal) :
        t \in { <<Kw.sword>>, <<Kw.phrase>>, <<Kw.excalibur>>,
                <<Kw.axe, Kw.sword_upper>>, <<>> },
        b \in { <<NoneVal, NoneVal>>, <<Some(F(1000)), Some(F(1500))>>,
                <<Some(F(2000)), NoneVal>>, <<NoneVal, Some(F(1500))>> } }

\* the word w with one letter replaced
Substituted(w) == { [w EXCEPT ![p] = "z"] : p \in DOMAIN w }

\* each rule of GateRules with each text; and each trigger word of
\* 1..MaxWordLen letters with itself, with itself with one letter replaced
\* and with the words that share no letter with it
GatePairs ==
    { <<rule, Tok(t, 1)>> :
        rule \in GateRules,
        t \in {Texts[k] : k \in DOMAIN Texts} \cup {Str_sword_price, Str_excalibur_sword} }
    \cup
    UNION { { <<Rule("fuzzy", <<w>>, NoneVal, NoneVal, NoneVal), Tok(t, 1)>> :
                t \in {w} \cup Substituted(w)
                         \cup { [i \in 1..k |-> "z"] : k \in 1..MaxWordLen } } :
            w \in UNION { [1..k -> {"a", "B"}] : k \in 1..MaxWordLen } }

\* The engine is running its first run, its configuration holds one rule and
\* process_frame has just returned one token.
InitGate ==
    /\ active = TRUE
    /\ handle = 1
    /\ brain_handle = 1
    /\ ctl = "idle"
    /\ ncalls = 1
    /\ nruns = 1
    /\ latest_frame = [r \in Runs |-> IF r = 1 THEN Frame(1) ELSE NoFrame]
    /\ rw = [r \in Runs |-> LockFree]
    /\ body = [r \in Runs |-> IF r = 1 THEN NewBody ELSE NoBody]
    /\ \E p \in GatePairs :
          /\ brain_config = [r \in Runs |-> IF r = 1 THEN Some(<<p[1]>>) ELSE NoneVal]
          /\ brain = [r \in Runs |->
                 IF r = 1
                 THEN goto_pair([NoBrain EXCEPT !.ocr = TRUE, !.frame_opt = Frame(1),
                                                !.findings = <<p[2]>>],
                                first_pair(1, 1))
                 ELSE NoBrain]
    /\ ncap = 1
    /\ last_pub = [r \in Runs |-> IF r = 1 THEN Frame(1) ELSE NoFrame]
    /\ published = {[run |-> 1, frame |-> Frame(1)]}
    /\ keys_down = {}
    /\ crop = [pc |-> "none"]
    /\ prep = [pc |-> "none"]
    /\ app_config = AppDefaults
    /\ clock = [pc |-> "none"]
    /\ tasks = [pc |-> "none"]

NextGate ==
    \/ \E r \in Runs : BrainMatch(r)
    \/ \E r \in Runs : BrainFire(r)
    \/ \E r \in Runs : BrainPress(r)
    \/ \E r \in Runs : BrainRelease(r)
    \/ \E r \in Runs : BrainSettle(r)

GateSpec == InitGate /\ [][NextGate]_vars

\* ------------------------- one run, with time and detached threads followed
\* The brain's `last_afk.elapsed() >= next_afk_delay` becomes true at some
\* moment after the interval was drawn.
AfkElapse ==
    /\ clock.pc = "run"
    /\ ~clock.afk_due
    /\ clock' = [clock EXCEPT !.afk_due = TRUE]
    /\ UNCHANGED <<active, handle, brain_handle, ctl, ncalls, nruns, latest_frame,
                   rw, body, brain, brain_config, ncap, last_pub, published,
                   keys_down, crop, prep, app_config, tasks>>

\* A step of a detached thread. The evidence thread saves the image (an
\* error is printed) and then posts to gas_url unless it is empty (an error
\* is printed); the webhook thread posts once and ignores the result. `live`
\* holds the stages at which some detached thread is.
TaskStep ==
    /\ tasks.pc = "run"
    /\ \E t \in tasks.live, ok \in BOOLEAN :
          LET gas_url == IF app_config.gas_url.some THEN app_config.gas_url.v ELSE <<>>
              after   == IF t.stage = "save" /\ gas_url # <<>>
                         THEN {[kind |-> "evidence", stage |-> "upload"]}
                         ELSE {}
          IN  tasks' = [tasks EXCEPT !.live = (@ \ {t}) \cup after,
                                     !.failed = @ \/ ~ok]
    /\ UNCHANGED <<active, handle, brain_handle, ctl, ncalls, nruns, latest_frame,
                   rw, body, brain, brain_config, ncap, last_pub, published,
                   keys_down, crop, prep, app_config, clock>>

\* configurations of the followed run: the optional fields absent; a known
\* key, a hold of 0.5 s and both URLs; an unknown key, a hold of 2.5 s and an
\* empty webhook URL
RunFields ==
    { AppDefaults,
      [global_action_key |-> Some(<<"F","5">>),
       hold_duration |-> Some([n |-> 5, d |-> 10]),
       discord_webhook_url |-> Some(<<"h","t","t","p","s",":","/","/","d">>),
       gas_url |-> Some(<<"h","t","t","p","s",":","/","/","g">>)],
      [global_action_key |-> Some(<<"m","o","u","s","e">>),
       hold_duration |-> Some([n |-> 25, d |-> 10]),
       discord_webhook_url |-> Some(<<>>),
       gas_url |-> NoneVal] }

\* Rule.cooldown values, in seconds
Cooldowns == {F(0), F(60)}

\* start() has returned, the body thread has published its first frame and
\* is back at its loop test, the brain thread is about to create its OCR engine
InitRun ==
    /\ active = TRUE
    /\ handle = 1
    /\ brain_handle = 1
    /\ ctl = "idle"
    /\ ncalls = 1
    /\ nruns = 1
    /\ latest_frame = [r \in Runs |-> IF r = 1 THEN Frame(1) ELSE NoFrame]
    /\ rw = [r \in Runs |-> LockFree]
    /\ body = [r \in Runs |-> IF r = 1 THEN NewBody ELSE NoBody]
    /\ brain = [r \in Runs |-> IF r = 1 THEN NewBrain ELSE NoBrain]
    /\ \E c \in Cooldowns :
          brain_config = [r \in Runs |->
              IF r = 1 THEN Some(<<[RuleSword EXCEPT !.cooldown = c],
                                   [RuleFire EXCEPT !.cooldown = c]>>)
              ELSE NoneVal]
    /\ ncap = 1
    /\ last_pub = [r \in Runs |-> IF r = 1 THEN Frame(1) ELSE NoFrame]
    /\ published = {[run |-> 1, frame |-> Frame(1)]}
    /\ keys_down = {}
    /\ crop = [pc |-> "none"]
    /\ prep = [pc |-> "none"]
    /\ app_config \in RunFields
    /\ clock = [pc |-> "run", afk_due |-> FALSE, pre |-> 0, hold |-> 0, since_up |-> -1]
    /\ tasks = [pc |-> "run", live |-> {}, failed |-> FALSE]

\* the run goes on until it is stopped; every further capture fails
NextRun ==
    \/ StopBegin
    \/ StopJoinBody
    \/ StopJoinBrain
    \/ \E r \in Runs : BodyCheck(r)
    \/ \E r \in Runs : BodyCaptureErr(r)
    \/ \E r \in Runs : BodyThrottle(r)
    \/ \E r \in Runs : BrainInitOcr(r)
    \/ \E r \in Runs : BrainCheck(r)
    \/ \E r \in Runs : BrainAfkSkip(r)
    \/ \E r \in Runs : BrainAfkPress(r)
    \/ \E r \in Runs : BrainAfkRelease(r)
    \/ \E r \in Runs : BrainReadLock(r)
    \/ \E r \in Runs : BrainClone(r)
    \/ \E r \in Runs : BrainCloneDone(r)
    \/ \E r \in Runs : BrainPass(r)
    \/ \E r \in Runs : BrainOcrOk(r)
    \/ \E r \in Runs : BrainOcrErr(r)
    \/ \E r \in Runs : BrainMatch(r)
    \/ \E r \in Runs : BrainFire(r)
    \/ \E r \in Runs : BrainPress(r)
    \/ \E r \in Runs : BrainRelease(r)
    \/ \E r \in Runs : BrainSettle(r)
    \/ \E r \in Runs : BrainSleep(r)
    \/ AfkElapse
    \/ TaskStep

RunSpec == InitRun /\ [][NextRun]_vars

\* Scheduling: each thread that can take a step eventually takes one, and a
\* join returns once its thread has ended. The evaluation of a pair is
\* enabled whenever the brain thread is at it, so its weak fairness is
\* written with that condition.
Fairness ==
    /\ \A r \in Runs : WF_vars(BodyStep(r))
    /\ \A r \in Runs : WF_vars(BrainStep(r))
    /\ \A r \in Runs : []<>(brain[r].pc # "match") \/ []<><<BrainMatch(r)>>_vars
    /\ WF_vars(StopJoinBody)
    /\ WF_vars(StopJoinBrain)

FairSpec == Spec /\ Fairness

\* ------------------------------------------------------------ crop_buffer
\* A u32 or usize value n is kept as the pair <<n \div 2^16, n % 2^16>>, so
\* that the whole range of u32 and the sizes of sources beyond it are
\* exact.  A u32 has a first component below 2^16.
Half == 256 * 256

Word(hi, lo) == <<hi + lo \div Half, lo % Half>>
U(n) == Word(0, n)

gt(a, b) == a[1] > b[1] \/ (a[1] = b[1] /\ a[2] > b[2])

\* the sum and the product without a range, as usize computes them here
\* (no value of a run comes near 2^64)
usize_add(a, b) == Word(a[1] + b[1], a[2] + b[2])

\* p * q for p, q < 2^16
mul16(p, q) ==
    LET t == p * (q \div 256)
    IN  Word(t \div 256, (t % 256) * 256 + p * (q % 256))

\* a[1] * b[2] + a[2] * b[1], the part of a * b that is weighted 2^16
cross(a, b) == usize_add(mul16(a[1], b[2]), mul16(a[2], b[1]))

usize_mul(a, b) ==
    <<a[1] * b[1] * Half + cross(a, b)[1] * Half + cross(a, b)[2] + mul16(a[2], b[2])[1],
      mul16(a[2], b[2])[2]>>

\* u32 `+` and `*`: the result leaves the range (a panic in a build that
\* checks overflow), and the wrapped result of a build that does not
add_overflows(a, b) == usize_add(a, b)[1] >= Half
wrapping_add(a, b) == <<usize_add(a, b)[1] % Half, usize_add(a, b)[2]>>

mul_overflows(a, b) ==
    \/ a[1] > 0 /\ b[1] > 0
    \/ cross(a, b)[1] > 0
    \/ cross(a, b)[2] + mul16(a[2], b[2])[1] >= Half
wrapping_mul(a, b) ==
    <<(cross(a, b)[2] + mul16(a[2], b[2])[1]) % Half, mul16(a[2], b[2])[2]>>

\* `let bpp = 4; // BGRA`
bpp == U(4)

\* some u32 operation after the bounds check leaves the range
offsets_overflow(src_w, region) ==
    \/ mul_overflows(src_w, bpp)
    \/ mul_overflows(region.width, bpp)
    \/ mul_overflows(region.width, region.height)
    \/ mul_overflows(wrapping_mul(region.width, region.height), bpp)
    \/ mul_overflows(region.y, src_w)
    \/ add_overflows(wrapping_mul(region.y, src_w), region.x)
    \/ mul_overflows(wrapping_add(wrapping_mul(region.y, src_w), region.x), bpp)

CropPanic == [tag |-> "panic", rows |-> <<>>]
CropNone == [tag |-> "None", rows |-> <<>>]
CropSome(rows) == [tag |-> "Some", rows |-> rows]

\* `for i in 0..region.height`: dest holds the slices copied so far, each
\* as the offset of its first byte in src and its length; a slice that ends
\* beyond src panics
RECURSIVE copy_rows(_, _, _, _, _, _)
copy_rows(src_len, row_bytes, crop_row_bytes, start_offset, height, dest) ==
    LET i == U(Len(dest))
        src_idx == usize_add(start_offset, usize_mul(i, row_bytes))
    IN  IF ~gt(height, i) THEN CropSome(dest)
        ELSE IF gt(usize_add(src_idx, crop_row_bytes), src_len) THEN CropPanic
        ELSE copy_rows(src_len, row_bytes, crop_row_bytes, start_offset, height,
                       Append(dest, [off |-> src_idx, len |-> crop_row_bytes]))

\* crop_buffer(src, src_w, src_h, region) on a source of src_len bytes;
\* checks: the build panics on integer overflow, otherwise it wraps
crop_buffer(src_len, src_w, src_h, region, checks) ==
    IF checks /\ add_overflows(region.x, region.width) THEN CropPanic
    ELSE IF gt(wrapping_add(region.x, region.width), src_w) THEN CropNone
    ELSE IF checks /\ add_overflows(region.y, region.height) THEN CropPanic
    ELSE IF gt(wrapping_add(region.y, region.height), src_h) THEN CropNone
    ELSE IF checks /\ offsets_overflow(src_w, region) THEN CropPanic
    ELSE copy_rows(src_len,
                   wrapping_mul(src_w, bpp),
                   wrapping_mul(region.width, bpp),
                   wrapping_mul(wrapping_add(wrapping_mul(region.y, src_w), region.x), bpp),
                   region.height,
                   <<>>)

MaxSmallSrc == 3     \* width and height of the small sources

\* a call on a source of src_w x src_h pixels of 4 bytes, either a small one
\* or one of 2^29 x 3 pixels, whose 3 * 2^31 bytes exceed the range of u32,
\* or one of 2^29 x 1 pixels, whose 2^31 bytes do not, with a region whose
\* fields are small, at the right edge of the wide sources or near the end
\* of the range
InitCrop ==
    /\ InitEngine
    /\ prep = [pc |-> "none"]
    /\ \E s \in { [src_w |-> U(w), src_h |-> U(h), src_len |-> U(w * h * 4)] :
                      w \in 1..MaxSmallSrc, h \in 1..MaxSmallSrc }
                  \cup { [src_w |-> <<8192, 0>>, src_h |-> U(3), src_len |-> <<98304, 0>>],
                         [src_w |-> <<8192, 0>>, src_h |-> U(1), src_len |-> <<32768, 0>>] },
          x \in {U(0), U(1), U(2), <<8192, 0>>, <<Half - 1, Half - 1>>},
          y \in {U(0), U(1), U(2), <<Half - 1, Half - 1>>},
          w, h \in {U(0), U(1), U(2), U(3), <<Half - 1, Half - 2>>, <<Half - 1, Half - 1>>},
          c \in BOOLEAN :
          crop = [pc |-> "call", src |-> s,
                  region |-> [x |-> x, y |-> y, width |-> w, height |-> h],
                  checks |-> c]

\* the call returns (or panics)
CropBuffer ==
    /\ crop.pc = "call"
    /\ crop' = [pc |-> "done", src |-> crop.src, region |-> crop.region,
                checks |-> crop.checks,
                out |-> crop_buffer(crop.src.src_len, crop.src.src_w, crop.src.src_h,
                                    crop.region, crop.checks)]
    /\ UNCHANGED <<active, handle, brain_handle, ctl, ncalls, nruns, latest_frame,
                   rw, body, brain, brain_config, ncap, last_pub, published,
                   keys_down, prep,
                   app_config, clock, tasks>>

CropSpec == InitCrop /\ [][CropBuffer]_vars

\* ------------------------------------------------------- preprocess_image
\* data is the byte slice; chunk k of chunks_exact(4) is data[4k-3 .. 4k],
\* in the order B, G, R, A

\* the gray pixels (v, v, v) whose f32 sum 0.299 * v + 0.587 * v + 0.114 * v
\* lies just below v
F32Low == {37, 61, 74, 93, 111, 122, 148, 186, 215, 222, 233, 244, 253}

\* `(0.299 * r + 0.587 * g + 0.114 * b) as u8` of chunk k: the f32 sum
\* truncates to the integer part of the exact sum for every pixel of
\* Palette and every gray pixel that is not in F32Low
gray(data, k) ==
    LET b == data[4 * k - 3]
        g == data[4 * k - 2]
        r == data[4 * k - 1]
    IN  IF b = g /\ g = r /\ b \in F32Low THEN b - 1
        ELSE (299 * r + 587 * g + 114 * b) \div 1000

grays(data) == [k \in 1..(Len(data) \div 4) |-> gray(data, k)]

\* pass 1: histogram[v] is the number of pixels of gray v
histogram(gs, v) == Cardinality({k \in DOMAIN gs : gs[k] = v})

\* min_val starts at 255 and max_val at 0
min_val(gs) ==
    LET vals == {255} \cup {gs[k] : k \in DOMAIN gs}
    IN  CHOOSE m \in vals : \A v \in vals : m <= v

max_val(gs) ==
    LET vals == {0} \cup {gs[k] : k \in DOMAIN gs}
    IN  CHOOSE m \in vals : \A v \in vals : m >= v

\* the loop over the histogram with `count >= mode_count`: the last index
\* of the greatest count
mode_val_tie_last(gs) ==
    LET vals == {0} \cup {gs[k] : k \in DOMAIN gs}
    IN  CHOOSE m \in vals :
            \A v \in vals : \/ histogram(gs, m) > histogram(gs, v)
                             \/ (histogram(gs, m) = histogram(gs, v) /\ m >= v)

\* the loop over the histogram with `if count > mode_count`, from
\* mode_val = 0 and mode_count = 0: the first index of the greatest count
\* (no other index than a gray of the image has a count above 0)
mode_val(gs) ==
    LET vals == {0} \cup {gs[k] : k \in DOMAIN gs}
    IN  CHOOSE m \in vals :
            \A v \in vals : \/ histogram(gs, m) > histogram(gs, v)
                             \/ (histogram(gs, m) = histogram(gs, v) /\ m <= v)

saturating_add(a, b) == IF a + b > 255 THEN 255 ELSE a + b

\* the sum of histogram[i] for i in threshold_white..256
bright_pixel_count(gs, threshold_white) ==
    Cardinality({k \in DOMAIN gs : gs[k] >= threshold_white})

\* what pass 2 uses of pass 1
pass1(data) ==
    LET gs == grays(data)
        mode == mode_val(gs)
        mx == max_val(gs)
        tw == saturating_add(mode, 20)
        total_pixels == Len(data) \div 4
    IN  [mode_val |-> mode,
         min_val |-> min_val(gs),
         max_val |-> mx,
         threshold_white |-> tw,
         use_high_threshold |->
             /\ mode > 100
             /\ mx > 240
             /\ bright_pixel_count(gs, tw) > total_pixels \div 200]

clamp(n, lo, hi) == IF n < lo THEN lo ELSE IF n > hi THEN hi ELSE n

\* auto-levels with `rng >= 10.0` as the test of a usable range
auto_levels_rng_ge(st, p_gray) ==
    LET invert == st.mode_val < 100
        val_f == IF invert THEN 255 - p_gray ELSE p_gray
        v_min == IF invert THEN 255 - st.max_val ELSE st.min_val
        v_max == IF invert THEN 255 - st.min_val ELSE st.max_val
        rng == v_max - v_min
    IN  IF rng >= 10 THEN (clamp(val_f - v_min, 0, rng) * 255) \div rng
        ELSE 127

\* STANDARD AUTO-LEVELS: `(normalized.clamp(0.0, 1.0) * 255.0) as u8`, the
\* quotient kept as a fraction of rng; 0.5 * 255.0 is 127.5
auto_levels(st, p_gray) ==
    LET invert == st.mode_val < 100
        val_f == IF invert THEN 255 - p_gray ELSE p_gray
        v_min == IF invert THEN 255 - st.max_val ELSE st.min_val
        v_max == IF invert THEN 255 - st.min_val ELSE st.max_val
        rng == v_max - v_min
    IN  IF rng > 10 THEN (clamp(val_f - v_min, 0, rng) * 255) \div rng
        ELSE 127

\* pass 2 with `p_gray > threshold_white` in the strict branch
final_val_gt(st, p_gray) ==
    IF st.use_high_threshold
    THEN IF p_gray > st.threshold_white THEN 255 ELSE 0
    ELSE auto_levels(st, p_gray)

final_val(st, p_gray) ==
    IF st.use_high_threshold
    THEN IF p_gray >= st.threshold_white THEN 255 ELSE 0
    ELSE auto_levels(st, p_gray)

\* pass 2 with the alpha byte written as well
apply_with_alpha(data, st) ==
    [i \in 1..Len(data) |->
        IF i > 4 * (Len(data) \div 4) THEN data[i]
        ELSE final_val(st, gray(data, (i + 3) \div 4))]

\* pass 2: chunk[0], chunk[1], chunk[2] = final_val; the alpha byte and the
\* bytes after the last whole chunk stay
apply(data, st) ==
    [i \in 1..Len(data) |->
        IF i > 4 * (Len(data) \div 4) \/ i % 4 = 0 THEN data[i]
        ELSE final_val(st, gray(data, (i + 3) \div 4))]

preprocess_image(data) == apply(data, pass1(data))

MaxPixels == 3       \* pixels of an image, the padding aside
PadPixels == 200     \* pixels of the padding

\* pixels as <<B, G, R, A>>
Palette ==
    { <<150, 150, 150, 255>>, <<250, 250, 250, 7>>, <<255, 255, 255, 255>>,
      <<30, 30, 30, 255>>, <<40, 40, 40, 255>>, <<200, 90, 10, 0>> }

\* the bytes of a sequence of pixels
Flatten(pixels) ==
    [i \in 1..(4 * Len(pixels)) |-> pixels[(i + 3) \div 4][((i - 1) % 4) + 1]]

\* an image: up to MaxPixels pixels of Palette, or a padding of light gray
\* pixels and up to MaxPixels near white or dark pixels, with or without
\* the bytes of an incomplete chunk after them
PrepImages ==
    { Flatten(px) \o tail :
        px \in UNION { [1..n -> Palette] : n \in 0..MaxPixels },
        tail \in {<<>>, <<9, 9>>} }
    \cup
    { Flatten([k \in 1..PadPixels |-> <<150, 150, 150, 255>>]) \o Flatten(px) \o tail :
        px \in UNION { [1..n -> {<<250, 250, 250, 7>>, <<30, 30, 30, 255>>}] :
                         n \in 0..MaxPixels },
        tail \in {<<>>, <<9, 9>>} }

InitPrep ==
    /\ InitEngine
    /\ crop = [pc |-> "none"]
    /\ \E data \in PrepImages : prep = [pc |-> "first", data |-> data]

\* preprocess_image(&mut data)
PrepFirst ==
    /\ prep.pc = "first"
    /\ prep' = [pc |-> "second", data |-> prep.data,
                strict |-> pass1(prep.data).use_high_threshold,
                out1 |-> preprocess_image(prep.data)]
    /\ UNCHANGED <<active, handle, brain_handle, ctl, ncalls, nruns, latest_frame,
                   rw, body, brain, brain_config, ncap, last_pub, published,
                   keys_down, crop,
                   app_config, clock, tasks>>

\* preprocess_image applied to its own result
PrepSecond ==
    /\ prep.pc = "second"
    /\ prep' = [pc |-> "done", data |-> prep.data, strict |-> prep.strict,
                out1 |-> prep.out1,
                out2 |-> preprocess_image(prep.out1)]
    /\ UNCHANGED <<active, handle, brain_handle, ctl, ncalls, nruns, latest_frame,
                   rw, body, brain, brain_config, ncap, last_pub, published,
                   keys_down, crop,
                   app_config, clock, tasks>>

PrepSpec == InitPrep /\ [][PrepFirst \/ PrepSecond]_vars

\* ------------------------------------------------------------------ claims
SlotHeld(r) == rw[r].writer \/ rw[r].readers > 0

\* C1: the publish of the capture loop never blocks: whenever the body
\* thread is at its try_write the step is enabled, and when the lock is held
\* the step leaves the slot as it was and takes the loop to the end of the
\* iteration.
C1_PublishNeverBlocks ==
    /\ [](\A r \in Runs : body[r].pc = "try_write" => ENABLED BodyTryWrite(r))
    /\ [][\A r \in Runs :
            (body[r].pc = "try_write" /\ SlotHeld(r) /\ body'[r] # body[r])
            => /\ latest_frame'[r] = latest_frame[r]
               /\ last_pub'[r] = last_pub[r]
               /\ body'[r].pc = "throttle"]_vars

\* a frame was dropped because the brain held the slot, which keeps its frame
C1_Witness ==
    \E r \in Runs : /\ body[r].note = "dropped"
                    /\ rw[r].readers > 0
                    /\ latest_frame[r].some

\* C2: every frame the brain holds after its clone is the whole triple of
\* one publish of its run (or none): never a mix of two publishes.
C2_NoTornFrame ==
    \A r \in Runs :
        brain[r].pc # "clone" =>
            \/ brain[r].frame_opt = NoFrame
            \/ [run |-> r, frame |-> brain[r].frame_opt] \in published

\* the brain holds a frame while the body overwrites the slot
C2_Witness ==
    \E r \in Runs : /\ brain[r].pc = "pass"
                    /\ brain[r].frame_opt.some
                    /\ body[r].pc = "write"
                    /\ body[r].wi > 1

\* C3: a completed read returns the frame of the most recent successful
\* publish of the run, none before the first one.
C3_LatestFrameOnly ==
    [][\A r \in Runs :
          (brain[r].pc = "clone" /\ brain'[r].pc = "pass")
          => brain'[r].frame_opt = last_pub[r]]_vars

\* a read after two publishes of the run
C3_Witness ==
    \E r \in Runs : /\ brain[r].pc = "pass"
                    /\ brain[r].frame_opt.some
                    /\ Cardinality({p \in published : p.run = r}) >= 2

NoLoopAlive == \A r \in Runs : ~Alive(body[r]) /\ ~Alive(brain[r])

\* C4: when stop has returned (no call in progress, flag cleared) both
\* loops have terminated.
C4_StopJoinsBoth == (ctl = "idle" /\ ~active) => NoLoopAlive

\* stop has returned on an engine that was running
C4_Witness ==
    /\ ctl = "idle"
    /\ ~active
    /\ \E r \in Runs : body[r].pc = "done" /\ brain[r].pc = "done"

\* a call that returns at once with the call counter raised is a start
StartStep == ctl = "idle" /\ ctl' = "idle" /\ ncalls' = ncalls + 1

\* C5: start on a running engine changes nothing: no thread, no slot, and
\* the flag and the handles stay as they are.
C5_StartWhileRunningNoOp ==
    [][(StartStep /\ active)
       => UNCHANGED <<active, handle, brain_handle, nruns, latest_frame, rw,
                      body, brain, brain_config>>]_vars

\* start was called twice in a row
C5_Witness == ncalls = 2 /\ nruns = 1 /\ active /\ ctl = "idle"

\* C6: at most one body and one brain thread are alive, the engine is
\* created stopped, and between calls the flag is set exactly when both
\* handles are present.
C6_OneLoopPair ==
    /\ Cardinality({r \in Runs : Alive(body[r])}) <= 1
    /\ Cardinality({r \in Runs : Alive(brain[r])}) <= 1
    /\ (ncalls = 0 => ~active /\ handle = None /\ brain_handle = None /\ NoLoopAlive)
    /\ (ctl = "idle" => (active <=> (handle # None /\ brain_handle # None)))

\* a second run is alive after the first one was stopped
C6_Witness ==
    \E r1, r2 \in Runs : /\ body[r1].pc = "done" /\ brain[r1].pc = "done"
                         /\ Alive(body[r2]) /\ Alive(brain[r2])
                         /\ handle = r2 /\ brain_handle = r2

Stopped == ~active /\ handle = None /\ brain_handle = None

\* C7: stop on a stopped engine does not wait and changes nothing.
C7_StopIdempotent ==
    /\ []((Stopped /\ ctl = "join_body") => ENABLED StopJoinBody)
    /\ []((Stopped /\ ctl = "join_brain") => ENABLED StopJoinBrain)
    /\ [][(Stopped /\ ~StartStep)
          => UNCHANGED <<active, handle, brain_handle, nruns, latest_frame, rw,
                         body, brain, brain_config>>]_vars

\* stop was called twice on an engine that was never started
C7_Witness == ncalls = 2 /\ nruns = 0 /\ ctl = "idle"


\* C8: in one analysis pass at most one action fires.
C8_SingleActionPerPass == \A r \in Runs : Len(brain[r].fired) <= 1

PassingPairs(rules, findings) ==
    {p \in (1..Len(rules)) \X (1..Len(findings)) : pair_fires(rules[p[1]], findings, p[2])}

PairBefore(p, q) == p[1] < q[1] \/ (p[1] = q[1] /\ p[2] <= q[2])

\* C9: the first action fired in a pass is that of the earliest rule with a
\* passing token, and of the earliest passing token of that rule; a pass
\* that ends without a fired action had no passing pair.
C9_FirstMatchWins ==
    \A r \in Runs :
        LET b     == brain[r]
            rules == rules_of(brain_config[r])
            pass  == PassingPairs(rules, b.findings)
        IN  /\ b.fired # <<>> =>
                  /\ <<b.fired[1].ri, b.fired[1].ii>> \in pass
                  /\ \A q \in pass : PairBefore(<<b.fired[1].ri, b.fired[1].ii>>, q)
            /\ (b.pc = "sleep" /\ pass # {}) => b.fired # <<>>

\* a pass fired for a pair of the second rule, or of the second token
C9_Witness ==
    \E r \in Runs :
        /\ brain[r].fired # <<>>
        /\ brain[r].fired[1].ri = 2
        /\ brain[r].fired[1].ii = 2

TopmostTokens(findings) ==
    {t \in DOMAIN findings : \A j \in DOMAIN findings : findings[t].y <= findings[j].y}

\* C10: a rule with a required attribute fires only when that attribute is
\* a case-insensitive substring of the text of a token of smallest y.
C10_AttributeGate ==
    \A r \in Runs :
        \A k \in DOMAIN brain[r].fired :
            LET f    == brain[r].fired[k]
                rule == rules_of(brain_config[r])[f.ri]
                fnd  == brain[r].findings
            IN  rule.target_attribute.some =>
                    \E t \in TopmostTokens(fnd) :
                        contains(to_lowercase(fnd[t].text),
                                 to_lowercase(rule.target_attribute.v))

\* a rule with an attribute written in upper case fired on a token that is
\* not the topmost one
C10_Witness ==
    \E r \in Runs :
        \E k \in DOMAIN brain[r].fired :
            LET f    == brain[r].fired[k]
                rule == rules_of(brain_config[r])[f.ri]
            IN  /\ rule.target_attribute.some
                /\ rule.target_attribute.v # to_lowercase(rule.target_attribute.v)
                /\ f.ii \notin TopmostTokens(brain[r].findings)

f32_eq(a, b) == a.n * b.d = b.n * a.d

HasPriceBound(rule) == rule.min_value.some \/ rule.max_value.some

\* C11: every fired event carries the id of its rule, the original text of
\* its token as name, the original text of a topmost token as attribute, and
\* a price that is 0 for a rule without price bound and lies inside the
\* bounds otherwise; the pass over ["Excalibur Sword" y=10, "Fire" y=2] with
\* the rule (attribute "fire", trigger "excalibur") ends with the single
\* event (name "Excalibur Sword", attribute "Fire", price 0).
C11_EventPayload ==
    \A r \in Runs :
        LET b     == brain[r]
            rules == rules_of(brain_config[r])
        IN  /\ \A k \in DOMAIN b.fired :
                  LET f    == b.fired[k]
                      rule == rules[f.ri]
                  IN  /\ f.id = rule.id
                      /\ f.name = b.findings[f.ii].text
                      /\ \E t \in TopmostTokens(b.findings) :
                             f.attribute = b.findings[t].text
                      /\ (~HasPriceBound(rule) => f32_eq(f.price, F(0)))
                      /\ (HasPriceBound(rule) =>
                             /\ (rule.min_value.some => f32_ge(f.price, rule.min_value.v))
                             /\ (rule.max_value.some => f32_le(f.price, rule.max_value.v)))
            /\ (b.pc = "sleep" /\ rules = <<RuleFire>>
                  /\ b.findings = <<TokExcalibur, TokFire>>)
               => /\ Len(b.fired) = 1
                  /\ b.fired[1].id = "fire_excalibur"
                  /\ b.fired[1].name = Str_excalibur_sword
                  /\ b.fired[1].attribute = Str_fire
                  /\ f32_eq(b.fired[1].price, F(0))

\* the pass of the example has ended with a fired event
C11_Witness ==
    \E r \in Runs :
        /\ brain[r].pc = "sleep"
        /\ rules_of(brain_config[r]) = <<RuleFire>>
        /\ brain[r].findings = <<TokExcalibur, TokFire>>
        /\ brain[r].fired # <<>>

\* the pass of run r over the single token `text` with the single rule
\* (triggers trig, bounds minv and maxv, no attribute) has ended
PassOver(r, trig, minv, maxv, text) ==
    /\ brain[r].pc = "sleep"
    /\ rules_of(brain_config[r]) = <<Rule("gate", trig, minv, maxv, NoneVal)>>
    /\ brain[r].findings = <<Tok(text, 1)>>

Fired(r) == brain[r].fired # <<>>

\* C12 as stated: the trigger "sword" matches the word "sowrd" and does not
\* match the word "axe".
C12_FuzzySowrd ==
    \A r \in Runs :
        /\ PassOver(r, <<Kw.sword>>, NoneVal, NoneVal, Texts.sowrd) => Fired(r)
        /\ PassOver(r, <<Kw.sword>>, NoneVal, NoneVal, Texts.axe) => ~Fired(r)

\* C12 amended: the trigger "sword" matches the word "sword" in any letter
\* case and matches neither "sowrd" (similarity 3/5) nor "axe"; the trigger
\* "excalibur" matches the word "excalibar" (similarity 8/9).
C12_FuzzyWord ==
    \A r \in Runs :
        /\ PassOver(r, <<Kw.sword>>, NoneVal, NoneVal, Texts.sword) => Fired(r)
        /\ PassOver(r, <<Kw.sword>>, NoneVal, NoneVal, Texts.sowrd) => ~Fired(r)
        /\ PassOver(r, <<Kw.sword>>, NoneVal, NoneVal, Texts.axe) => ~Fired(r)
        /\ PassOver(r, <<Kw.excalibur>>, NoneVal, NoneVal, Texts.excalibar) => Fired(r)

\* the pass over "sowrd" with the trigger "sword" has ended
C12_Witness ==
    \E r \in Runs : PassOver(r, <<Kw.sword>>, NoneVal, NoneVal, Texts.sowrd)

\* the pass of run r over one generated word with one generated trigger
\* has ended
FuzzyPassOver(r) ==
    /\ brain[r].pc = "sleep"
    /\ Len(rules_of(brain_config[r])) = 1
    /\ rules_of(brain_config[r])[1].id = "fuzzy"

FuzzyTrigger(r) == to_lowercase(rules_of(brain_config[r])[1].trigger_text[1])
FuzzyWord(r) == to_lowercase(brain[r].findings[1].text)

OneSubstitution(a, b) ==
    /\ Len(a) = Len(b)
    /\ Cardinality({i \in DOMAIN a : a[i] # b[i]}) = 1

NoSharedCharacter(a, b) == Range(a) \cap Range(b) = {}

\* C13 as stated: a word one substitution away from the trigger is accepted
\* whatever the length of the trigger; an equal word is accepted; a word
\* sharing no character with the trigger is rejected.
C13_OneSubstitution ==
    \A r \in Runs :
        FuzzyPassOver(r) =>
            /\ OneSubstitution(FuzzyWord(r), FuzzyTrigger(r)) => Fired(r)
            /\ FuzzyWord(r) = FuzzyTrigger(r) => Fired(r)
            /\ NoSharedCharacter(FuzzyWord(r), FuzzyTrigger(r)) => ~Fired(r)

\* C13 amended: a word one substitution away from the trigger is accepted
\* when the trigger has at least 7 characters and rejected when it has
\* fewer; an equal word is accepted; a word sharing no character with the
\* trigger is rejected.
C13_OneSubstitutionLong ==
    \A r \in Runs :
        FuzzyPassOver(r) =>
            /\ OneSubstitution(FuzzyWord(r), FuzzyTrigger(r))
                  => (Fired(r) <=> Len(FuzzyTrigger(r)) >= 7)
            /\ FuzzyWord(r) = FuzzyTrigger(r) => Fired(r)
            /\ NoSharedCharacter(FuzzyWord(r), FuzzyTrigger(r)) => ~Fired(r)

\* a trigger of 7 letters has accepted a word with one letter replaced
C13_Witness ==
    \E r \in Runs :
        /\ FuzzyPassOver(r)
        /\ Len(FuzzyTrigger(r)) = 7
        /\ OneSubstitution(FuzzyWord(r), FuzzyTrigger(r))
        /\ Fired(r)

\* the pass of run r over one token with one rule without attribute has ended
SinglePassOver(r) ==
    /\ brain[r].pc = "sleep"
    /\ Len(rules_of(brain_config[r])) = 1
    /\ Len(brain[r].findings) = 1
    /\ ~rules_of(brain_config[r])[1].target_attribute.some

\* the pieces of a text between its non-alphanumeric characters, the empty
\* ones included
SplitPieces(text) ==
    { SubSeq(text, i, j) : <<i, j>> \in
        { q \in (1..(Len(text) + 1)) \X (0..Len(text)) :
            /\ q[2] >= q[1] - 1
            /\ (q[1] = 1 \/ text[q[1] - 1] \notin AlnumChars)
            /\ (q[2] = Len(text) \/ text[q[2] + 1] \notin AlnumChars)
            /\ \A k \in q[1]..q[2] : text[k] \in AlnumChars } }

HasSubstring(text, sub) ==
    \E i \in 1..(Len(text) + 1) :
        /\ i + Len(sub) - 1 <= Len(text)
        /\ SubSeq(text, i, i + Len(sub) - 1) = sub

KeywordGate(rule, tok) ==
    \E k \in DOMAIN rule.trigger_text :
        LET kw   == to_lowercase(rule.trigger_text[k])
            text == to_lowercase(tok.text)
        IN  IF \E i \in DOMAIN kw : kw[i] = " "
            THEN HasSubstring(text, kw)
            ELSE \E w \in SplitPieces(text) :
                     w = kw \/ gt_085(normalized_levenshtein(w, kw))

\* C14: a pair fires only if one of the triggers of its rule matches the
\* lower-cased text of its token, a trigger with a space as a substring and
\* a trigger without a space against the pieces between non-alphanumeric
\* characters; without price bound and attribute it fires exactly then; a
\* rule without trigger never fires.
C14_KeywordGate ==
    \A r \in Runs :
        SinglePassOver(r) =>
            LET rule == rules_of(brain_config[r])[1]
                tok  == brain[r].findings[1]
            IN  /\ Fired(r) => KeywordGate(rule, tok)
                /\ ~HasPriceBound(rule) => (Fired(r) <=> KeywordGate(rule, tok))
                /\ rule.trigger_text = <<>> => ~Fired(r)

\* the phrase "Excalibur Sword" has fired on the token "Excalibur Sword",
\* matched through its lower-cased form
C14_Witness ==
    \E r \in Runs :
        /\ PassOver(r, <<Kw.phrase>>, NoneVal, NoneVal, Str_excalibur_sword)
        /\ Fired(r)

\* the maximal runs of digits, commas and periods of a text, as <<first, last>>
NumericRuns(text) ==
    { q \in (1..Len(text)) \X (1..Len(text)) :
        /\ q[1] <= q[2]
        /\ \A k \in q[1]..q[2] : text[k] \in PriceChars
        /\ (q[1] = 1 \/ text[q[1] - 1] \notin PriceChars)
        /\ (q[2] = Len(text) \/ text[q[2] + 1] \notin PriceChars) }

RunValue(text, q) == parse_f32(remove_commas(SubSeq(text, q[1], q[2])))

\* the runs that parse to a value inside the declared bounds
ValidRuns(rule, text) ==
    { q \in NumericRuns(text) :
        LET p == RunValue(text, q)
        IN  /\ p.some
            /\ (rule.min_value.some =>
                   rule.min_value.v.n * p.v.d <= p.v.n * rule.min_value.v.d)
            /\ (rule.max_value.some =>
                   p.v.n * rule.max_value.v.d <= rule.max_value.v.n * p.v.d) }

\* C15: a pair whose keyword gate passes fires, under a rule with a price
\* bound, exactly when a numeric run of the text of its token, commas
\* removed, parses to a value inside the bounds, and the price of the event
\* is the value of the first such run; under a rule without bound it always
\* fires; "Sword $1,250" fires with price 1250 for min=1000, max=1500 and
\* does not fire for min=2000.
C15_PriceGate ==
    \A r \in Runs :
        /\ SinglePassOver(r) =>
              LET rule  == rules_of(brain_config[r])[1]
                  tok   == brain[r].findings[1]
                  valid == ValidRuns(rule, tok.text)
              IN  keyword_match(rule, tok) =>
                      /\ ~HasPriceBound(rule) => Fired(r)
                      /\ HasPriceBound(rule) =>
                            /\ Fired(r) <=> valid # {}
                            /\ Fired(r) =>
                                  \E q \in valid :
                                      /\ \A q2 \in valid : q[1] <= q2[1]
                                      /\ f32_eq(brain[r].fired[1].price,
                                                RunValue(tok.text, q).v)
        /\ PassOver(r, <<Kw.sword>>, Some(F(1000)), Some(F(1500)), Str_sword_price)
              => Fired(r) /\ f32_eq(brain[r].fired[1].price, F(1250))
        /\ PassOver(r, <<Kw.sword>>, Some(F(2000)), NoneVal, Str_sword_price)
              => ~Fired(r)

\* "Sword 99 1,250 1,300" has fired with the price 1250 for min=1000,
\* max=1500: the first run is outside the bounds, the second one is taken
C15_Witness ==
    \E r \in Runs :
        /\ PassOver(r, <<Kw.sword>>, Some(F(1000)), Some(F(1500)), Texts.three_prices)
        /\ Fired(r)
        /\ f32_eq(brain[r].fired[1].price, F(1250))

\* the exact sum a + b and the exact product a * k for a small number k
Plus(a, b) == <<a[1] + b[1] + (a[2] + b[2]) \div 65536, (a[2] + b[2]) % 65536>>
Times(a, k) == <<a[1] * k + (a[2] * k) \div 65536, (a[2] * k) % 65536>>
Exceeds(a, b) == a[1] > b[1] \/ (a[1] = b[1] /\ a[2] > b[2])

\* the region lies inside the source
RegionFits(c) ==
    /\ ~Exceeds(Plus(c.region.x, c.region.width), c.src.src_w)
    /\ ~Exceeds(Plus(c.region.y, c.region.height), c.src.src_h)

\* C16: for a region inside the source crop_buffer returns height rows of
\* width * 4 bytes, row j being the bytes of the source from pixel
\* (x, y + j) on, so that the result holds width * height * 4 bytes and its
\* pixel (i, j) is the pixel (x + i, y + j) of the source.
C16_CropContent ==
    (crop.pc = "done" /\ RegionFits(crop)) =>
        /\ crop.out.tag = "Some"
        /\ crop.region.height = <<0, Len(crop.out.rows)>>
        /\ \A j \in DOMAIN crop.out.rows :
              /\ crop.out.rows[j].len = Times(crop.region.width, 4)
              /\ crop.out.rows[j].off =
                     Times(Plus(Times(crop.src.src_w, crop.region.y[2] + j - 1),
                                crop.region.x), 4)

\* C17: for a region that exceeds the source in width or in height
\* crop_buffer returns no result, whatever the values of the fields.
C17_CropOutOfBounds ==
    (crop.pc = "done" /\ ~RegionFits(crop)) => crop.out.tag = "None"

\* the pixels of a buffer, by the number of their chunk
PixelsOf(buf) == 1..(Len(buf) \div 4)

\* from buffer before to buffer after: the same length, the same alpha
\* bytes, and B = G = R in every pixel of after
ChannelsEqual(before, after) ==
    /\ Len(after) = Len(before)
    /\ \A k \in PixelsOf(after) :
          /\ after[4 * k - 3] = after[4 * k - 2]
          /\ after[4 * k - 2] = after[4 * k - 1]
          /\ after[4 * k] = before[4 * k]

\* C18: after preprocess_image every pixel has equal B, G and R bytes,
\* every alpha byte is unchanged and the length of the buffer is unchanged,
\* for the first application and for the application to its result.
C18_ChannelsEqual ==
    /\ prep.pc \in {"second", "done"} => ChannelsEqual(prep.data, prep.out1)
    /\ prep.pc = "done" => ChannelsEqual(prep.out1, prep.out2)

\* preprocess_image has rewritten a pixel whose channels differed and whose
\* alpha byte is 0
C18_Witness ==
    /\ prep.pc = "second"
    /\ \E k \in PixelsOf(prep.data) :
          /\ prep.data[4 * k] = 0
          /\ prep.data[4 * k - 3] # prep.data[4 * k - 1]
          /\ prep.out1[4 * k - 3] # prep.data[4 * k - 3]

Whites(buf) == Cardinality({k \in PixelsOf(buf) : buf[4 * k - 3] = 255})
Blacks(buf) == Cardinality({k \in PixelsOf(buf) : buf[4 * k - 3] = 0})

\* C19 as stated: whenever the first application takes the
\* strict-binarization branch, the second application reproduces its result.
C19_Idempotent ==
    (prep.pc = "done" /\ prep.strict) => prep.out2 = prep.out1

\* C19: whenever the first application takes the strict-binarization
\* branch its result holds only pixels of 0 and of 255, and the second
\* application reproduces that result exactly when it has more pixels of 255
\* than pixels of 0.
C19_IdempotentMostlyWhite ==
    (prep.pc = "done" /\ prep.strict) =>
        /\ Whites(prep.out1) + Blacks(prep.out1) = Len(prep.out1) \div 4
        /\ prep.out2 = prep.out1 <=> Whites(prep.out1) > Blacks(prep.out1)

\* a strict binarization with pixels of both values that the second
\* application has reproduced
C19_Witness ==
    /\ prep.pc = "done"
    /\ prep.strict
    /\ Blacks(prep.out1) > 0
    /\ prep.out2 = prep.out1

\* the pass of run r cannot go on to recognition: no frame in the slot, no
\* OCR engine, or a crop outside the frame
PassFails(r) ==
    \/ ~brain[r].frame_opt.some
    \/ ~brain[r].ocr
    \/ ~crop_fits(brain[r].frame_opt.w, brain[r].frame_opt.h, roi)

\* C20: the analysis loop is left only at its test of the running flag and
\* only when the flag is cleared; a pass that cannot go on (no frame, a crop
\* outside the frame) and a pass whose recognition fails go to the
\* inter-pass sleep, and after the sleep the loop tests the flag for the
\* next pass.
C20_LoopSurvivesFailure ==
    [][\A r \in Runs :
          /\ (brain[r].pc # "done" /\ brain'[r].pc = "done") =>
                 (brain[r].pc = "check" /\ ~active)
          /\ (brain[r].pc = "check" /\ brain'[r].pc # "check") =>
                 (brain'[r].pc = "done" <=> ~active)
          /\ (brain[r].pc = "pass" /\ PassFails(r) /\ brain'[r] # brain[r]) =>
                 brain'[r].pc = "sleep"
          /\ ("OCR Error" \in brain'[r].log /\ "OCR Error" \notin brain[r].log) =>
                 (brain[r].pc = "ocr" /\ brain'[r].pc = "sleep")
          /\ (brain[r].pc = "ocr" /\ brain'[r] # brain[r]) =>
                 brain'[r].pc \in {"sleep", "match"}
          /\ (brain[r].pc = "sleep" /\ brain'[r] # brain[r]) =>
                 brain'[r].pc = "check"
    ]_vars

\* a pass has ended with a recognition error while the flag is set, and the
\* loop is in its inter-pass sleep
C20_Witness ==
    \E r \in Runs : /\ active
                     /\ brain[r].pc = "sleep"
                     /\ "OCR Error" \in brain[r].log

\* the entries a pass has logged about itself (the anti-AFK entry is logged
\* before the pass reads the slot)
PassLog(r) == brain[r].log \ {"Anti-AFK"}

\* C30: a pass that ends on an empty slot, and a pass that ends on a frame
\* the crop does not fit, has logged an entry about it.
C30_EveryFailureLogged ==
    \A r \in Runs :
        /\ (brain[r].pc = "sleep" /\ ~brain[r].frame_opt.some) => PassLog(r) # {}
        /\ (/\ brain[r].pc = "sleep"
            /\ brain[r].frame_opt.some
            /\ ~crop_fits(brain[r].frame_opt.w, brain[r].frame_opt.h, roi))
           => PassLog(r) # {}

\* the brain thread of run r is in its loop without an OCR engine
NoEngine(r) == brain[r].pc \notin {"none", "init"} /\ ~brain[r].ocr

\* C21: in a run whose OCR engine could not be created the brain thread
\* stays in its loop of flag test, anti-AFK, read of the slot and sleep: it
\* never reaches recognition, matches no rule and fires no action, while the
\* body thread of the run can always take its next step.
C21_RunsWithoutEngine ==
    \A r \in Runs :
        NoEngine(r) =>
            /\ brain[r].pc \in {"check", "afk", "afk_hold", "read", "clone",
                                "pass", "sleep", "done"}
            /\ brain[r].fired = <<>>
            /\ brain[r].findings = <<>>
            /\ brain[r].log \subseteq {"Anti-AFK"}
            /\ Alive(body[r]) => ENABLED BodyStep(r)

\* without an engine the brain has read a published frame and ended the pass
C21_Witness ==
    \E r \in Runs : /\ NoEngine(r)
                    /\ brain[r].pc = "sleep"
                    /\ brain[r].frame_opt.some
                    /\ brain_config[r] = Some(<<RuleSword, RuleFire>>)
                    /\ Cardinality({p \in published : p.run = r}) >= 2

\* C23: no thread waits for ever. The body thread can take a step whenever
\* it is alive; the brain thread can take a step whenever it is alive (the
\* evaluation of a pair waits for nothing), except at its read of the slot
\* while the body thread is inside its write, and the body thread can then
\* go on; a stop that cannot go on waits for a thread that is alive.
C23_NoDeadlock ==
    /\ \A r \in Runs :
          /\ Alive(body[r]) => ENABLED BodyStep(r)
          /\ Alive(brain[r]) =>
                \/ brain[r].pc = "match"
                \/ ENABLED BrainStep(r)
                \/ /\ brain[r].pc = "read"
                   /\ rw[r].writer
                   /\ body[r].pc = "write"
                   /\ ENABLED BodyStep(r)
    /\ ctl = "join_body" =>
          \/ ENABLED StopJoinBody
          \/ handle # None /\ Alive(body[handle])
    /\ ctl = "join_brain" =>
          \/ ENABLED StopJoinBrain
          \/ brain_handle # None /\ Alive(brain[brain_handle])

\* stop waits for the body thread, which is inside its write, and the brain
\* thread waits for the slot
C23_Witness ==
    \E r \in Runs : /\ ctl = "join_body"
                    /\ handle = r
                    /\ body[r].pc = "write"
                    /\ brain[r].pc = "read"
                    /\ rw[r].writer

\* C24: the slot is written only by a step of the body thread inside its
\* publish, and the running flag only by a call of start or stop: a step of
\* the brain thread leaves the slot and the flag as they are, and a step of
\* the body thread leaves the flag as it is.
C24_OneDirection ==
    [][/\ latest_frame' # latest_frame =>
             \E r \in Runs : /\ body[r].pc = "write"
                             /\ body'[r] # body[r]
                             /\ brain' = brain
                             /\ \A q \in Runs \ {r} : latest_frame'[q] = latest_frame[q]
       /\ active' # active => ctl = "idle" /\ ncalls' = ncalls + 1
       /\ \A r \in Runs :
             /\ (Alive(brain[r]) /\ brain'[r] # brain[r])
                => latest_frame' = latest_frame /\ active' = active
             /\ (Alive(body[r]) /\ body'[r] # body[r]) => active' = active]_vars

\* both threads have worked on the slot of a run: the brain holds a clone of
\* the frame that is still in the slot, and the flag is still set
C24_Witness ==
    \E r \in Runs : /\ active
                    /\ brain[r].pc = "sleep"
                    /\ brain[r].frame_opt.some
                    /\ latest_frame[r] = brain[r].frame_opt
                    /\ body[r].pc = "throttle"

\* C25: the evidence, upload and webhook work of a fired action is done by
\* detached threads. The brain thread can take its next step whatever
\* detached threads are running; the set of running threads changes only
\* when an action fires, which adds the threads of that action, or by a step
\* of a detached thread, and such a step, failed or not, changes nothing
\* else: no state of the brain or body thread, no key, no flag.
C25_DetachedSideEffects ==
    /\ [](\A r \in Runs :
            (Alive(brain[r]) /\ tasks.live # {})
            => (brain[r].pc = "match" \/ ENABLED BrainStep(r)))
    /\ [][tasks' # tasks =>
            \/ \E r \in Runs : /\ brain[r].pc = "fire"
                               /\ brain'[r].pc = "press"
                               /\ tasks'.live = tasks.live \cup spawned(app_config)
                               /\ tasks'.failed = tasks.failed
            \/ UNCHANGED <<active, handle, brain_handle, ctl, ncalls, nruns,
                           latest_frame, rw, body, brain, brain_config, ncap,
                           last_pub, published, keys_down, app_config, clock>>]_vars

\* a later pass is under way while the upload of an earlier action is still
\* running after a failed step, next to its webhook thread
C25_Witness ==
    \E r \in Runs : /\ brain[r].pc = "read"
                    /\ tasks.failed
                    /\ [kind |-> "evidence", stage |-> "upload"] \in tasks.live
                    /\ [kind |-> "webhook", stage |-> "post"] \in tasks.live

\* the time slept since the last key up of a triggered press is at least
\* the settle delay, or there was no triggered press yet
Settled == clock.since_up = -1 \/ clock.since_up >= SettleMs

\* C26: the key up of a triggered press is followed by the settle delay
\* before anything else: the brain thread evaluates the next pair, ends the
\* pass or presses the key of a further action only when the settle delay
\* has been slept through since the last key up of a triggered press.
C26_SettleAfterAction ==
    [][\A r \in Runs :
          brain'[r] # brain[r] =>
              /\ brain[r].pc = "release" => brain'[r].pc = "settle"
              /\ brain[r].pc = "settle" =>
                    /\ brain'[r].pc \in {"match", "sleep"}
                    /\ clock'.since_up = SettleMs
              /\ brain[r].pc \in {"match", "fire", "press", "sleep"} => Settled]_vars

\* the key of the second action of a pass goes down, the settle delay after
\* the key up of the first
C26_Witness ==
    \E r \in Runs : /\ brain[r].pc = "release"
                    /\ Len(brain[r].fired) = 2
                    /\ clock.since_up = SettleMs
                    /\ brain[r].key \in keys_down

\* C27: at the top of a pass the brain thread presses one of W, A, S, D
\* exactly when the anti-AFK interval has elapsed, whatever the slot, the OCR
\* engine and the rules did; the next thing it does is the key up of that
\* key, with which the interval starts anew, and then the read of the slot.
\* Nothing else restarts the interval: an elapsed interval stays elapsed
\* through fired actions until that key up.
C27_AntiAfk ==
    [][/\ \A r \in Runs :
             brain'[r] # brain[r] =>
                 /\ (brain[r].pc = "afk" /\ clock.afk_due) =>
                       /\ brain'[r].pc = "afk_hold"
                       /\ brain'[r].key \in AfkKeys
                       /\ keys_down' = keys_down \cup {brain'[r].key}
                 /\ (brain[r].pc = "afk" /\ ~clock.afk_due) =>
                       /\ brain'[r].pc = "read"
                       /\ keys_down' = keys_down
                 /\ brain[r].pc = "afk_hold" =>
                       /\ brain'[r].pc = "read"
                       /\ keys_down' = keys_down \ {brain[r].key}
                       /\ ~clock'.afk_due
       /\ (clock.afk_due /\ ~clock'.afk_due) =>
             \E r \in Runs : brain[r].pc = "afk_hold" /\ brain'[r].pc = "read"]_vars

\* the interval elapsed in a pass that fired an action, and the key of the
\* micro-movement is down at the top of the next pass
C27_Witness ==
    \E r \in Runs : /\ brain[r].pc = "afk_hold"
                    /\ brain[r].key \in AfkKeys
                    /\ clock.afk_due
                    /\ clock.since_up = SettleMs
                    /\ keys_down = {brain[r].key}

\* the brain thread of run r has sent a key down and not yet the key up
Holding(r) == brain[r].pc \in {"release", "afk_hold"}

NoCooldown(rule) == [rule EXCEPT !.cooldown = F(0)]

\* C29: the cooldown of a rule has no effect. Whatever the cooldowns and
\* whatever has fired before, a pair fires exactly when it passes the gates
\* of the rule with its cooldown erased, the action fired is that of the rule
\* with its cooldown erased, and after the settle delay the loops go on with
\* the next pair, a pair of the same rule included.
C29_CooldownIgnored ==
    [][\A r \in Runs :
          brain'[r] # brain[r] =>
              LET rules == rules_of(brain_config[r])
                  b     == brain[r]
              IN  /\ b.pc = "match" =>
                        IF pair_fires(NoCooldown(rules[b.ri]), b.findings, b.ii)
                        THEN brain'[r] = [b EXCEPT !.pc = "fire"]
                        ELSE brain'[r] = goto_pair(b, next_pair(b.ri, b.ii, Len(rules),
                                                               Len(b.findings)))
                  /\ b.pc = "fire" =>
                        brain'[r].fired =
                            Append(b.fired, fire_event(NoCooldown(rules[b.ri]),
                                                       b.findings, b.ri, b.ii))
                  /\ b.pc = "settle" =>
                        brain'[r] = goto_pair(b, next_pair(b.ri, b.ii, Len(rules),
                                                          Len(b.findings)))]_vars

\* a rule with a cooldown of 60 seconds has fired for two tokens of one pass
C29_Witness ==
    \E r \in Runs : /\ Len(brain[r].fired) >= 2
                    /\ brain[r].fired[1].id = brain[r].fired[2].id
                    /\ brain[r].fired[1].ri = brain[r].fired[2].ri
                    /\ rules_of(brain_config[r])[brain[r].fired[1].ri].cooldown = F(60)
                    /\ clock.since_up = SettleMs

\* C22: a stop of a running engine returns, and when it has returned both
\* loops have ended.
C22_StopTerminates ==
    (ctl = "join_body" /\ handle # None) ~> (ctl = "idle" /\ NoLoopAlive)

\* stop has cleared the flag while the brain thread is inside the rule loop
\* with the key of an action down and the body thread is inside its publish
C22_Witness ==
    \E r \in Runs : /\ ctl = "join_body"
                    /\ handle = r
                    /\ brain[r].pc = "release"
                    /\ body[r].pc = "write"

\* the number of pixels of the image whose luminance is v
C31_Count(v) == Cardinality({k \in DOMAIN grays(prep.data) : grays(prep.data)[k] = v})

\* the most frequent luminance, the lowest one among equally frequent ones
\* (a luminance that no pixel has is less frequent than any that one has)
C31_Mode ==
    LET seen == {0} \cup {grays(prep.data)[k] : k \in DOMAIN grays(prep.data)}
    IN  CHOOSE m \in seen :
            \A v \in seen : \/ C31_Count(m) > C31_Count(v)
                           \/ (C31_Count(m) = C31_Count(v) /\ m <= v)

\* strict binarization with the threshold t: selected exactly when the mode
\* is above 100, the greatest luminance above 240 and more than 0.5% of the
\* pixels at or above t; then every pixel is 255 at or above t and 0 below
C31_Rule(t) ==
    prep.pc \in {"second", "done"} =>
        LET gs == grays(prep.data)
            bright == Cardinality({k \in DOMAIN gs : gs[k] >= t})
        IN  /\ prep.strict <=> /\ C31_Mode > 100
                               /\ \E k \in DOMAIN gs : gs[k] > 240
                               /\ 200 * bright > Len(gs)
            /\ prep.strict =>
                   \A k \in DOMAIN gs :
                       /\ prep.out1[4 * k - 3] = IF gs[k] >= t THEN 255 ELSE 0
                       /\ prep.out1[4 * k - 2] = prep.out1[4 * k - 3]
                       /\ prep.out1[4 * k - 1] = prep.out1[4 * k - 3]

\* C31: preprocess_image uses strict binarization exactly when the mode of
\* the histogram (the lowest bucket among equally frequent ones) is above
\* 100, the greatest luminance is above 240 and the pixels of luminance at
\* least mode + 20 are more than 0.5% of all pixels; in that branch a pixel
\* becomes 255 if its luminance is at least mode + 20 and 0 otherwise.
C31_StrictRule == C31_Rule(C31_Mode + 20)

\* C31, amended: the same with the threshold mode + 20 capped at 255.
C31_StrictRuleSaturating ==
    C31_Rule(IF C31_Mode + 20 > 255 THEN 255 ELSE C31_Mode + 20)

\* a light gray image with near white pixels has been binarized: the mode
\* is 150, the threshold 170, and the result holds both 0 and 255
C31_Witness ==
    /\ prep.pc = "second"
    /\ prep.strict
    /\ C31_Mode = 150
    /\ \E k \in DOMAIN grays(prep.data) : prep.out1[4 * k - 3] = 255
    /\ \E k \in DOMAIN grays(prep.data) : prep.out1[4 * k - 3] = 0

\* C32: when strict binarization is not selected, an image whose mode is
\* below 100 is inverted before it is normalised, so that its darkest
\* pixels get the brightest output (255 for the darkest and 0 for the
\* brightest when the range is above 10), and an image whose range
\* max - min is at most 10 is written as the mid-gray 127 in every pixel.
C32_AutoLevels ==
    (prep.pc \in {"second", "done"} /\ ~prep.strict) =>
        LET gs == grays(prep.data)
            out(k) == prep.out1[4 * k - 3]
            darkest(k) == \A j \in DOMAIN gs : gs[k] <= gs[j]
            brightest(k) == \A j \in DOMAIN gs : gs[k] >= gs[j]
            flat == \A j, k \in DOMAIN gs : gs[j] - gs[k] <= 10
        IN  /\ C31_Mode < 100 =>
                   \A k \in DOMAIN gs :
                       /\ darkest(k) => \A j \in DOMAIN gs : out(k) >= out(j)
                       /\ (darkest(k) /\ ~flat) => out(k) = 255
                       /\ (brightest(k) /\ ~flat) => out(k) = 0
                       /\ \A j \in DOMAIN gs : gs[j] <= gs[k] => out(j) >= out(k)
            /\ flat =>
                   \A k \in DOMAIN gs :
                       /\ out(k) = 127
                       /\ prep.out1[4 * k - 2] = 127
                       /\ prep.out1[4 * k - 1] = 127

\* a dark image of range 220 has been inverted: its pixel of luminance 30
\* is written as 255 and its pixel of luminance 250 as 0
C32_Witness ==
    /\ prep.pc = "second"
    /\ ~prep.strict
    /\ C31_Mode = 30
    /\ \E j, k \in DOMAIN grays(prep.data) :
           /\ grays(prep.data)[j] = 30 /\ prep.out1[4 * j - 3] = 255
           /\ grays(prep.data)[k] = 250 /\ prep.out1[4 * k - 3] = 0

\* an image of the luminances 30 and 40, of range 10, has been written as
\* mid-gray
C32_WitnessFlat ==
    /\ prep.pc = "second"
    /\ ~prep.strict
    /\ \E j, k \in DOMAIN grays(prep.data) :
           /\ grays(prep.data)[j] = 30 /\ grays(prep.data)[k] = 40
           /\ \A i \in DOMAIN grays(prep.data) : grays(prep.data)[i] \in {30, 40}
    /\ \A k \in DOMAIN grays(prep.data) : prep.out1[4 * k - 3] = 127

\* the stages of a pass after its read of the slot
PassStages == {"pass", "ocr", "match", "fire", "press", "release", "settle"}

\* C33: the brain thread holds the lock of the slot only while it clones,
\* and every stage of the pass works on the clone: while the pass runs no
\* step, a publish of the body thread included, changes the frame the pass
\* analyses, and a publish the body thread attempts during the pass gets
\* the lock at once.
C33_SnapshotIsolation ==
    /\ [](\A r \in Runs :
            /\ rw[r].readers > 0 <=> brain[r].pc = "clone"
            /\ (body[r].pc = "try_write" /\ brain[r].pc # "clone")
               => try_write(rw[r]) = "acquired")
    /\ [][\A r \in Runs :
            brain[r].pc \in PassStages
            => /\ brain'[r].frame_opt = brain[r].frame_opt
               /\ (body[r].pc = "try_write" /\ body'[r] # body[r])
                  => body'[r].pc = "write" /\ rw'[r].writer]_vars

\* the pass recognises the text of one frame while the body thread has
\* published the next one into the slot
C33_Witness ==
    \E r \in Runs : /\ brain[r].pc = "match"
                    /\ brain[r].frame_opt.some
                    /\ latest_frame[r].some
                    /\ latest_frame[r] = last_pub[r]
                    /\ latest_frame[r] # brain[r].frame_opt
                    /\ ~SlotHeld(r)

\* the stages of a fired action: the MATCHED log and the detached threads,
\* the key down, the key up, the settle sleep
InFlight(r) == brain[r].pc \in {"fire", "press", "release", "settle"}

\* C34: once the running flag is cleared the brain thread starts no new
\* action and no new pass: with the flag cleared a pair fires only if its
\* action was in flight already, the list of fired actions grows only by
\* that action, and the test of the loop ends the thread.
C34_NoActionAfterStop ==
    [][\A r \in Runs :
          ~active =>
              /\ (brain'[r].pc = "fire" /\ brain[r].pc # "fire") => FALSE
              /\ Len(brain'[r].fired) > Len(brain[r].fired) => brain[r].pc = "fire"
              /\ (brain[r].pc = "check" /\ brain'[r] # brain[r])
                 => brain'[r].pc = "done"]_vars

\* C34, the part that holds: with the flag cleared the test of the loop
\* ends the thread, so no pass begins after it.
C34_NoNewPass ==
    [][\A r \in Runs :
          (~active /\ brain[r].pc = "check" /\ brain'[r] # brain[r])
          => brain'[r].pc = "done"]_vars

\* C35: a read does not consume the frame. In a run whose slot holds the
\* frame of its one successful publish and whose later captures all fail,
\* the slot holds that frame after every read, every pass analyses that
\* frame, and a completed read leaves the slot as it was.
C35_ReadKeepsFrame ==
    /\ [](\A r \in Runs :
            Alive(brain[r]) =>
                /\ rw[r].writer = FALSE
                /\ latest_frame[r] = last_pub[r]
                /\ latest_frame[r].some
                /\ Cardinality({p \in published : p.run = r}) = 1
                /\ brain[r].pc \in PassStages \cup {"sleep"}
                   => brain[r].frame_opt = latest_frame[r])
    /\ [][\A r \in Runs :
            (brain[r].pc = "clone" /\ brain'[r].pc = "pass")
            => /\ latest_frame'[r] = latest_frame[r]
               /\ brain'[r].frame_opt = latest_frame[r]]_vars

\* the one frame fires an action in a second pass: the action of an earlier
\* pass has been released and settled, and the pass that runs now, which
\* has not fired yet, has found a passing pair in the same frame
C35_Witness ==
    \E r \in Runs : /\ clock.since_up = SettleMs
                    /\ brain[r].pc = "fire"
                    /\ brain[r].fired = <<>>
                    /\ brain[r].frame_opt = latest_frame[r]
                    /\ published = {[run |-> r, frame |-> latest_frame[r]]}

\* the frames published during the run r
PublishedIn(r) == {p.frame : p \in {q \in published : q.run = r}}

\* C36: every start makes a new, empty slot that only the two threads of
\* that run use. The slot of a run that has not published is empty, a
\* frame the brain thread of a run holds was published in that run and in
\* no other one, and once the slot of a run holds a frame it never is empty
\* again.
C36_FreshSlotPerRun ==
    /\ [](\A r \in Runs :
            /\ PublishedIn(r) = {} => latest_frame[r] = NoFrame /\ brain[r].frame_opt = NoFrame
            /\ (brain[r].pc # "clone" /\ brain[r].frame_opt.some)
               => /\ brain[r].frame_opt \in PublishedIn(r)
                  /\ \A q \in Runs \ {r} : brain[r].frame_opt \notin PublishedIn(q))
    /\ [][/\ nruns' # nruns =>
                /\ nruns' = nruns + 1
                /\ latest_frame'[nruns'] = NoFrame
                /\ rw'[nruns'] = LockFree
                /\ \A q \in Runs \ {nruns'} : latest_frame'[q] = latest_frame[q]
          /\ \A r \in Runs :
                /\ (latest_frame[r].some /\ nruns' = nruns) => latest_frame'[r].some
                /\ latest_frame'[r] # latest_frame[r]
                   => \A q \in Runs \ {r} : body'[q] = body[q]]_vars

\* after a stop and a second start the brain thread of the second run holds
\* the frame of that run while the slot of the first run still holds the
\* frame published during the first run
C36_Witness ==
    /\ nruns = 2
    /\ brain[2].pc = "pass"
    /\ brain[2].frame_opt.some
    /\ brain[2].frame_opt = latest_frame[2]
    /\ latest_frame[1].some
    /\ latest_frame[1] # latest_frame[2]

\* a value of the range of u32
Fits32(a) == a[1] < Half

\* the values crop_buffer computes in u32, without a range: the two sums of
\* the bounds check, the row stride, the bytes of a row of the region, the
\* capacity and the start offset, each with the values it is built from
U32Values(c) ==
    LET r == c.region
    IN  { usize_add(r.x, r.width), usize_add(r.y, r.height),
          usize_mul(c.src.src_w, bpp), usize_mul(r.width, bpp),
          usize_mul(r.width, r.height), usize_mul(usize_mul(r.width, r.height), bpp),
          usize_mul(r.y, c.src.src_w), usize_add(usize_mul(r.y, c.src.src_w), r.x),
          usize_mul(usize_add(usize_mul(r.y, c.src.src_w), r.x), bpp) }

\* no value wraps, the call returns, and every slice lies inside the source
NoWrap(c) ==
    /\ \A v \in U32Values(c) : Fits32(v)
    /\ c.out.tag = "Some"
    /\ \A j \in DOMAIN c.out.rows :
          ~Exceeds(Plus(c.out.rows[j].off, c.out.rows[j].len), c.src.src_len)

\* C37: for every source whose size in bytes fits in 32 bits and every
\* region inside it, none of the values crop_buffer computes in u32 (the
\* sums of the bounds check, the row stride, the start offset, the
\* capacity) wraps, and every slice it takes lies inside the source.
C37_NoWrapInRange ==
    (crop.pc = "done" /\ Fits32(crop.src.src_len) /\ RegionFits(crop)) => NoWrap(crop)

\* C37 for the regions of at least one row: there the claim holds.
C37_NoWrapNonEmpty ==
    (/\ crop.pc = "done"
     /\ Fits32(crop.src.src_len)
     /\ RegionFits(crop)
     /\ Exceeds(crop.region.height, U(0))) => NoWrap(crop)

\* a region of two rows has been copied from a source of 3 x 3 pixels
C37_WitnessNonEmpty ==
    /\ crop.pc = "done"
    /\ crop.src.src_len = U(36)
    /\ crop.region.height = U(2)
    /\ crop.region.x = U(1)
    /\ crop.out.tag = "Some"
    /\ Len(crop.out.rows) = 2

====
